---- MODULE Spec2Model ----
(***************************************************************************)
(* A model of zoxel's voxel volume engine: VoxelData (src/src/voxel.py)    *)
(* and its undo buffer Undo (src/src/undo.py).                             *)
(*                                                                         *)
(* Python values are modelled as follows.                                  *)
(*  - A voxel grid (the nested list data[x][y][z]) is a function from the  *)
(*    coordinates <<x,y,z>> it holds to the packed colour stored there.    *)
(*    Reading or writing a coordinate outside its domain is an IndexError. *)
(*  - Grids are mutable objects reached through references: heap is the    *)
(*    sequence of live grid objects, and _data and the entries of _frames  *)
(*    are indices into it, so that an in-place write through _data is seen *)
(*    through every other reference to the same object.                    *)
(*  - An exception leaves every assignment made before it in place: each   *)
(*    method is an operator from the object's fields to the fields after   *)
(*    the call, with raised = TRUE when the call ended in an exception.    *)
(*  - World-space coordinates are multiples of one half; they are kept as  *)
(*    integers counting halves, so that 2 is one voxel unit.               *)
(*  - The five flat arrays get_vertices returns hold 6 vertices for each   *)
(*    face; they are kept as the sequence of the faces, each a record of   *)
(*    the 6 entries it contributes to every array.                         *)
(***************************************************************************)
EXTENDS Integers, Sequences, FiniteSets, TLC

\* ------------------------------------------------------------------ bounds
\* A recorded edit is offered while the undo buffer holds fewer than MaxItems
\* UndoItems.
MaxItems == 2
\* Largest number of animation frames add_frame may grow the model to.
MaxFrames == 2

\* ------------------------------------------------------ program constants
EMPTY == 0
SET_VOXEL == 1
TRANSLATE == 2
\* The occlusion factor, in tenths (OCCLUSION = 0.7).
OCCLUSION_TENTHS == 7
X_AXIS == 1
Y_AXIS == 2
Z_AXIS == 3

\* ------------------------------------------------------------------ inputs
\* Packed colours: EMPTY and two distinct non-empty colours.
Colours == {EMPTY, 1, 2}
\* The starting dimensions, in place of the default 16 x 16 x 16.
InitDims == <<2, 1, 1>>
\* The calls resize(width, height, depth, shift) offered.
ResizeInputs == {<<2, 1, 1, 0>>, <<2, 1, 1, 1>>, <<1, 1, 1, 0>>}
\* Coordinates offered to set: the coordinates in bounds under the dimensions
\* the model reaches, and coordinates outside on either side.
CoordInputs ==
    {<<0, 0, 0>>, <<1, 0, 0>>, <<0, 0, 1>>, <<-1, 0, 0>>, <<2, 0, 0>>}
\* Deltas offered to translate.
DeltaInputs == {<<0, 0, 0>>, <<1, 0, 0>>}
\* The inputs of the multi-frame specification.
FrameCoordInputs == {<<1, 0, 0>>, <<2, 0, 0>>}
FrameColours == {EMPTY, 1}
FrameDeltaInputs == {<<1, 0, 0>>}
FrameResizeInputs == {<<2, 1, 1, 0>>, <<1, 1, 1, 0>>}
\* The coordinate offered to set when only the frames of an animation are
\* edited.
AnimCoordInputs == {<<1, 0, 0>>}
\* The inputs of the specification of moving content: dimensions with three
\* and two cells along x and z, and deltas that are zero, positive, negative
\* and larger than the dimensions.
MoveDims == <<3, 1, 2>>
MoveCoordInputs == {<<0, 0, 0>>, <<2, 0, 1>>}
MoveDeltaInputs == {<<0, 0, 0>>, <<1, 0, 0>>, <<-1, 0, 0>>, <<4, -2, -3>>}
\* The inputs of the specification of resizing and rotating an animation:
\* every coordinate of the volumes of two cells, and sizes that grow and
\* shrink them.
TransformCoordInputs == {<<0, 0, 0>>, <<1, 0, 0>>, <<0, 1, 0>>, <<0, 0, 1>>}
TransformResizeInputs == {<<2, 1, 1, 0>>, <<1, 1, 1, 0>>}
\* The inputs of the specification of the mesh: a volume of 2 x 2 x 2, the
\* packed colour (10, 20, 30, 255), and the coordinates drawn: two voxels
\* adjacent along x and, above them, the three neighbours of the top face
\* of (0,0,0) that are tested for occlusion.
MeshDims == <<2, 2, 2>>
MeshColours == {EMPTY, 169090815}
MeshCoordInputs ==
    {<<0, 0, 0>>, <<1, 0, 0>>, <<1, 1, 0>>, <<0, 1, 1>>, <<1, 1, 1>>}
\* The inputs of the specification of the changed flag: the coordinate and
\* delta drawn and moved with, the sizes resized to, and the grid handed to
\* set_data, a copy of a 2 x 1 x 1 volume with a voxel at (0,0,0).
DocumentCoordInputs == {<<0, 0, 0>>, <<2, 0, 0>>}
DocumentDeltaInputs == {<<0, 0, 0>>, <<1, 0, 0>>}
DocumentResizeInputs == {<<1, 1, 1, 0>>}
DocumentGrids == {(<<0, 0, 0>> :> 1) @@ (<<1, 0, 0>> :> EMPTY)}
\* The files offered to ZoxelFile.load, as the text parses: whether it is
\* JSON, the keys of the object, the values of version and of width, height
\* and depth, and the entries of frame1, where an entry that is not of 4
\* elements is malformed.  In order: not JSON; a newer version; a 1 x 1 x 1
\* model of one voxel; the same with a malformed entry after the voxel; no
\* frame1; no dimensions and one voxel; no dimensions and a malformed entry.
LoadKeys == {"version", "frame1", "width", "height", "depth"}
LoadFiles ==
    { [json |-> FALSE, keys |-> {}, version |-> 0, dims |-> <<0, 0, 0>>, frame1 |-> <<>>],
      [json |-> TRUE, keys |-> LoadKeys, version |-> 2, dims |-> <<1, 1, 1>>,
       frame1 |-> << <<0, 0, 0, 1>> >>],
      [json |-> TRUE, keys |-> LoadKeys, version |-> 1, dims |-> <<1, 1, 1>>,
       frame1 |-> << <<0, 0, 0, 1>> >>],
      [json |-> TRUE, keys |-> LoadKeys, version |-> 1, dims |-> <<1, 1, 1>>,
       frame1 |-> << <<0, 0, 0, 1>>, <<0, 0>> >>],
      [json |-> TRUE, keys |-> LoadKeys \ {"frame1"}, version |-> 1, dims |-> <<1, 1, 1>>,
       frame1 |-> <<>>],
      [json |-> TRUE, keys |-> {"version", "frame1"}, version |-> 1, dims |-> <<0, 0, 0>>,
       frame1 |-> << <<1, 0, 0, 1>> >>],
      [json |-> TRUE, keys |-> {"version", "frame1"}, version |-> 1, dims |-> <<0, 0, 0>>,
       frame1 |-> << <<0, 0>> >>] }
\* The coordinate drawn at before a load.
LoadCoordInputs == {<<1, 0, 0>>}
\* The inputs of the specification of drawing: a volume of 2 x 2 x 2, the
\* palette colour (10, 20, 30) packed with alpha 0xff, and the coordinates
\* of clicks that hit no voxel: in bounds and outside.
DrawDims == <<2, 2, 2>>
DrawColour == 169090815
FloorInputs == {<<0, 0, 0>>, <<1, 0, 1>>, <<1, 1, 0>>, <<2, 0, 0>>}
\* The values of each voxel coordinate of a face whose colour ID is rendered
\* and read back: no bit, the lowest, the highest and all of the 7 bits.
PickCoordInputs == {0, 1, 64, 127}
\* The dimensions of the volumes whose coordinate maps are applied: odd and
\* even on every axis.
WorldDims == {<<2, 3, 4>>, <<3, 2, 1>>}

\* The directions offered to expand: one unit along each axis, positive and
\* negative.
ExpandInputs == {<<1, 0, 0>>, <<-1, 0, 0>>, <<0, 1, 0>>, <<0, 0, -1>>}
ExpandCoordInputs == {<<0, 0, 0>>, <<1, 0, 0>>, <<2, 0, 0>>}

\* ----------------------------------------------------------- Python lists
Min(S) == CHOOSE m \in S : \A n \in S : m <= n

\* l[i] for a non-negative index i: defined when i < len(l).
InRange(l, i) == i >= 0 /\ i < Len(l)
At(l, i) == l[i + 1]
\* l.insert(pos, v): positions past the end append.
ListInsert(l, pos, v) ==
    LET p == IF pos > Len(l) THEN Len(l) ELSE pos
    IN  SubSeq(l, 1, p) \o <<v>> \o SubSeq(l, p + 1, Len(l))
\* del l[pos], for an index in range.
ListDel(l, pos) == SubSeq(l, 1, pos) \o SubSeq(l, pos + 2, Len(l))
\* l[i] = v, for an index in range.
ListSet(l, i, v) == [l EXCEPT ![i + 1] = v]
\* v in l
Contains(l, v) == \E i \in DOMAIN l : l[i] = v
\* l.remove(v): removes the first occurrence.
ListRemove(l, v) ==
    LET i == Min({j \in DOMAIN l : l[j] = v})
    IN  SubSeq(l, 1, i - 1) \o SubSeq(l, i + 1, Len(l))

\* ----------------------------------------------------------------- grids
Cells(w, h, d) == (0 .. w - 1) \X (0 .. h - 1) \X (0 .. d - 1)
\* [[[0 for _ in xrange(depth)] for _ in xrange(height)] for _ in xrange(width)]
NewGrid(w, h, d) == [c \in Cells(w, h, d) |-> 0]

VARIABLES
    voxels,     \* the VoxelData object: its fields _width, _height, _depth,
                \* _data, _frames, _cache, _changed, _frame_count,
                \* _current_frame, _undo (the Undo object's fields) and the
                \* heap of grid objects its references point into
    last        \* the call made last and its outcome

vars == <<voxels, last>>

\* The outcome of a call: the fields after it, whether it raised, its result.
Ok(s, r) == [s |-> s, raised |-> FALSE, ret |-> r]
Raise(s) == [s |-> s, raised |-> TRUE, ret |-> "None"]

\* Garbage collection and renaming of references: the objects reachable from
\* _frames and _data, numbered in the order _frames then _data reaches them.
Canon(s) ==
    LET refs == s.frames \o <<s.data>>
        firsts == {i \in DOMAIN refs : \A j \in 1 .. i - 1 : refs[j] # refs[i]}
        rank(i) == Cardinality({j \in firsts : j <= i})
        newid(r) == rank(Min({i \in DOMAIN refs : refs[i] = r}))
        nth(k) == refs[CHOOSE i \in firsts : rank(i) = k]
    IN  [s EXCEPT !.heap = [k \in 1 .. Cardinality(firsts) |-> s.heap[nth(k)]],
                  !.frames = [j \in DOMAIN s.frames |-> newid(s.frames[j])],
                  !.data = newid(s.data)]

\* A new object holding grid g; ref is the reference to it.
Alloc(s, g) == [s |-> [s EXCEPT !.heap = Append(s.heap, g)], ref |-> Len(s.heap) + 1]

\* ------------------------------------------------------------ undo.py
\* An UndoItem.
UndoItem(operation, olddata, newdata) ==
    [operation |-> operation, olddata |-> olddata, newdata |-> newdata]

\* An element of Undo._buffer: a frame's log (a list of UndoItems) or, where
\* the code stored one, a bare UndoItem.
LogEntry(items) == [kind |-> "list", v |-> items]
ItemEntry(item) == [kind |-> "item", v |-> <<item>>]

\* Undo.clear
Undo_clear(u) == [u EXCEPT !.buffer = <<LogEntry(<<>>)>>, !.ptr = <<-1>>, !.frame = 0]

\* Undo.__init__
Undo_init == Undo_clear([buffer |-> <<>>, ptr |-> <<>>, frame |-> 0, enabled |-> TRUE])

\* Undo.add_frame
Undo_add_frame(u, pos) ==
    [u EXCEPT !.buffer = ListInsert(u.buffer, pos, LogEntry(<<>>)),
              !.ptr = ListInsert(u.ptr, pos, -1)]

\* Undo.delete_frame: each del raises IndexError past the end of its list.
Undo_delete_frame(u, pos) ==
    IF ~InRange(u.buffer, pos) THEN [u |-> u, raised |-> TRUE]
    ELSE LET u1 == [u EXCEPT !.buffer = ListDel(u.buffer, pos)]
         IN  IF ~InRange(u.ptr, pos) THEN [u |-> u1, raised |-> TRUE]
             ELSE [u |-> [u1 EXCEPT !.ptr = ListDel(u.ptr, pos)], raised |-> FALSE]

\* self._buffer[self._frame] can be read and len() applies to it.
HasLog(u) == InRange(u.buffer, u.frame) /\ At(u.buffer, u.frame).kind = "list"
Log(u) == At(u.buffer, u.frame).v

\* The assignment of line 74: self._buffer = self._buffer[self._frame][:ptr+1],
\* which stores a slice of one frame's log where the list of logs was.
TruncatedBuffer(u) ==
    LET keep == SubSeq(Log(u), 1, At(u.ptr, u.frame) + 1)
    IN  [i \in DOMAIN keep |-> ItemEntry(keep[i])]

\* Undo.add
Undo_add(u, item) ==
    IF ~u.enabled THEN [u |-> u, raised |-> FALSE]
    ELSE IF ~InRange(u.ptr, u.frame) \/ ~HasLog(u) THEN [u |-> u, raised |-> TRUE]
    ELSE LET u1 == IF At(u.ptr, u.frame) < Len(Log(u)) - 1
                   THEN [u EXCEPT !.buffer = TruncatedBuffer(u)]
                   ELSE u
         IN  \* self._buffer[self._frame].append(item): an IndexError, or an
             \* AttributeError when the element is an UndoItem
             IF ~HasLog(u1) THEN [u |-> u1, raised |-> TRUE]
             ELSE LET log == Append(Log(u1), item)
                  IN  [u |-> [u1 EXCEPT
                                 !.buffer = ListSet(u1.buffer, u1.frame, LogEntry(log)),
                                 !.ptr = ListSet(u1.ptr, u1.frame, Len(log) - 1)],
                       raised |-> FALSE]

\* Undo._valid_buffer, where it does not raise
Undo_valid_buffer(u) == Len(Log(u)) > 0

\* Undo.undo that returns the item and leaves the pointer where it was.
Undo_undo_keeps_ptr(u) ==
    IF ~HasLog(u) THEN [u |-> u, raised |-> TRUE, item |-> <<>>]
    ELSE IF ~Undo_valid_buffer(u) THEN [u |-> u, raised |-> FALSE, item |-> <<>>]
    ELSE IF ~InRange(u.ptr, u.frame) THEN [u |-> u, raised |-> TRUE, item |-> <<>>]
    ELSE LET p == At(u.ptr, u.frame)
             i == IF p < 0 THEN Len(Log(u)) + p ELSE p
         IN  IF ~InRange(Log(u), i) THEN [u |-> u, raised |-> TRUE, item |-> <<>>]
             ELSE [u |-> u, raised |-> FALSE, item |-> <<At(Log(u), i)>>]

\* Undo.undo; item is <<>> for None. A pointer of -1 indexes the log from
\* its end, as Python's negative indices do.
Undo_undo(u) ==
    IF ~HasLog(u) THEN [u |-> u, raised |-> TRUE, item |-> <<>>]
    ELSE IF ~Undo_valid_buffer(u) THEN [u |-> u, raised |-> FALSE, item |-> <<>>]
    ELSE IF ~InRange(u.ptr, u.frame) THEN [u |-> u, raised |-> TRUE, item |-> <<>>]
    ELSE LET p == At(u.ptr, u.frame)
             i == IF p < 0 THEN Len(Log(u)) + p ELSE p
         IN  IF ~InRange(Log(u), i) THEN [u |-> u, raised |-> TRUE, item |-> <<>>]
             ELSE [u |-> [u EXCEPT !.ptr = ListSet(u.ptr, u.frame,
                                                 IF p - 1 < -1 THEN -1 ELSE p - 1)],
                   raised |-> FALSE, item |-> <<At(Log(u), i)>>]

\* Undo.redo
Undo_redo(u) ==
    IF ~HasLog(u) THEN [u |-> u, raised |-> TRUE, item |-> <<>>]
    ELSE IF ~Undo_valid_buffer(u) THEN [u |-> u, raised |-> FALSE, item |-> <<>>]
    ELSE IF ~InRange(u.ptr, u.frame) THEN [u |-> u, raised |-> TRUE, item |-> <<>>]
    ELSE LET p == At(u.ptr, u.frame) + 1
         IN  IF p > Len(Log(u)) - 1
             THEN [u |-> [u EXCEPT !.ptr = ListSet(u.ptr, u.frame, Len(Log(u)) - 1)],
                   raised |-> FALSE, item |-> <<>>]
             ELSE [u |-> [u EXCEPT !.ptr = ListSet(u.ptr, u.frame, p)],
                   raised |-> FALSE, item |-> <<At(Log(u), p)>>]

\* ----------------------------------------------------------- voxel.py
\* The grid _data refers to.
Grid(s) == s.heap[s.data]

\* VoxelData.blank_data
blank_data(s) == NewGrid(s.width, s.height, s.depth)

\* is_valid_bounds with the upper limit of x included.
is_valid_bounds_inclusive(s, x, y, z) ==
    /\ x >= 0 /\ x <= s.width
    /\ y >= 0 /\ y < s.height
    /\ z >= 0 /\ z < s.depth

\* VoxelData.is_valid_bounds
is_valid_bounds(s, x, y, z) ==
    /\ x >= 0 /\ x < s.width
    /\ y >= 0 /\ y < s.height
    /\ z >= 0 /\ z < s.depth

\* The coordinates in the order _cache_rebuild visits them: x outermost,
\* then z, then y.
ScanOrder(w, h, d) ==
    IF w <= 0 \/ h <= 0 \/ d <= 0 THEN <<>>
    ELSE [i \in 1 .. w * h * d |->
            <<(i - 1) \div (h * d), (i - 1) % h, ((i - 1) \div h) % d>>]

\* VoxelData._cache_rebuild: the scan stops at the first coordinate that
\* _data does not hold (an IndexError), keeping what it appended so far.
cache_rebuild(s) ==
    LET order == ScanOrder(s.width, s.height, s.depth)
        missing == {i \in DOMAIN order : order[i] \notin DOMAIN Grid(s)}
        n == IF missing = {} THEN Len(order) ELSE Min(missing) - 1
        s1 == [s EXCEPT !.cache =
                 SelectSeq(SubSeq(order, 1, n), LAMBDA c : Grid(s)[c] # EMPTY)]
    IN  IF missing = {} THEN Ok(s1, "None") ELSE Raise(s1)

\* VoxelData.select_frame
select_frame(s, frame_number) ==
    IF frame_number < 0 \/ frame_number >= s.frame_count THEN Ok(s, "None")
    ELSE IF ~InRange(s.frames, s.current_frame) THEN Raise(s)
    ELSE LET s1 == [s EXCEPT !.frames = ListSet(s.frames, s.current_frame, s.data)]
         IN  IF ~InRange(s1.frames, frame_number) THEN Raise(s1)
             ELSE LET s2 == [s1 EXCEPT !.data = At(s1.frames, frame_number),
                                       !.current_frame = frame_number,
                                       !.undo.frame = frame_number]
                      r == cache_rebuild(s2)
                  IN  IF r.raised THEN r
                      ELSE Ok([r.s EXCEPT !.changed = TRUE], "None")

\* add_frame that inserts the current frame's own object, not a copy of it.
add_frame_shares(s, copy_current) ==
    LET a == IF copy_current THEN [s |-> s, ref |-> s.data]
             ELSE Alloc(s, blank_data(s))
        s1 == [a.s EXCEPT
                 !.frames = ListInsert(a.s.frames, s.current_frame + 1, a.ref),
                 !.undo = Undo_add_frame(s.undo, s.current_frame + 1),
                 !.frame_count = s.frame_count + 1]
    IN  select_frame(s1, s1.current_frame + 1)

\* VoxelData.add_frame
add_frame(s, copy_current) ==
    LET a == Alloc(s, IF copy_current THEN Grid(s) ELSE blank_data(s))
        s1 == [a.s EXCEPT
                 !.frames = ListInsert(a.s.frames, s.current_frame + 1, a.ref),
                 !.undo = Undo_add_frame(s.undo, s.current_frame + 1),
                 !.frame_count = s.frame_count + 1]
    IN  select_frame(s1, s1.current_frame + 1)

\* VoxelData.select_next_frame
select_next_frame(s) ==
    LET nextframe == s.current_frame + 1
    IN  select_frame(s, IF nextframe >= s.frame_count THEN 0 ELSE nextframe)

\* VoxelData.select_previous_frame
select_previous_frame(s) ==
    LET prevframe == s.current_frame - 1
    IN  select_frame(s, IF prevframe < 0 THEN s.frame_count - 1 ELSE prevframe)

\* VoxelData.delete_frame
delete_frame(s) ==
    IF s.frame_count <= 1 THEN Ok(s, "None")
    ELSE LET killframe == s.current_frame
             r == select_previous_frame(s)
         IN  IF r.raised THEN r
             ELSE IF ~InRange(r.s.frames, killframe) THEN Raise(r.s)
             ELSE LET s1 == [r.s EXCEPT !.frames = ListDel(r.s.frames, killframe)]
                      d == Undo_delete_frame(s1.undo, killframe)
                      s2 == [s1 EXCEPT !.undo = d.u]
                  IN  IF d.raised THEN Raise(s2)
                      ELSE LET s3 == [s2 EXCEPT !.frame_count = s2.frame_count - 1]
                               s4 == IF s3.frame_count = 1
                                     THEN [s3 EXCEPT !.current_frame = 0]
                                     ELSE s3
                           IN  Ok(IF s4.current_frame > killframe
                                  THEN [s4 EXCEPT !.current_frame = s4.current_frame - 1]
                                  ELSE s4, "None")

\* cache_after_set without the membership test before the append.
cache_after_set_always_appends(cache, c, state) ==
    IF state # EMPTY
    THEN Append(cache, c)
    ELSE IF Contains(cache, c) THEN ListRemove(cache, c) ELSE cache

\* The cache after set wrote state at coordinate c (lines 210-215).
cache_after_set(cache, c, state) ==
    IF state # EMPTY
    THEN IF ~Contains(cache, c) THEN Append(cache, c) ELSE cache
    ELSE IF Contains(cache, c) THEN ListRemove(cache, c) ELSE cache

\* VoxelData.set, for a packed integer state
set(s, x, y, z, state, record) ==
    IF ~is_valid_bounds(s, x, y, z) THEN Ok(s, "False")
    ELSE IF <<x, y, z>> \notin DOMAIN Grid(s) THEN Raise(s)
    ELSE LET a == IF record
                  THEN Undo_add(s.undo, UndoItem(SET_VOXEL,
                           <<x, y, z, Grid(s)[<<x, y, z>>]>>, <<x, y, z, state>>))
                  ELSE [u |-> s.undo, raised |-> FALSE]
             s1 == [s EXCEPT !.undo = a.u]
         IN  IF a.raised THEN Raise(s1)
             ELSE Ok([s1 EXCEPT
                        !.heap[s.data][<<x, y, z>>] = state,
                        !.cache = cache_after_set(s.cache, <<x, y, z>>, state),
                        !.changed = TRUE], "True")

\* VoxelData.get; raised when the read is an IndexError.
get(s, x, y, z) ==
    IF ~is_valid_bounds(s, x, y, z) THEN [raised |-> FALSE, ret |-> EMPTY]
    ELSE IF <<x, y, z>> \notin DOMAIN Grid(s) THEN [raised |-> TRUE, ret |-> EMPTY]
    ELSE [raised |-> FALSE, ret |-> Grid(s)[<<x, y, z>>]]

\* set_data without the assignment to changed.
set_data_unflagged(s, g) ==
    LET a == Alloc(s, g)
    IN  cache_rebuild([a.s EXCEPT !.data = a.ref])
\* VoxelData.set_data, given a grid
set_data(s, g) ==
    LET a == Alloc(s, g)
        r == cache_rebuild([a.s EXCEPT !.data = a.ref])
    IN  IF r.raised THEN r ELSE Ok([r.s EXCEPT !.changed = TRUE], "None")

\* _initialise_data without the reset of the cache.
initialise_data_keeps_cache(s) ==
    LET a == Alloc(s, blank_data(s))
    IN  [a.s EXCEPT !.data = a.ref,
                    !.changed = FALSE,
                    !.undo = Undo_clear(s.undo),
                    !.frame_count = 1,
                    !.current_frame = 0,
                    !.frames = <<a.ref>>]
\* VoxelData._initialise_data
initialise_data(s) ==
    LET a == Alloc(s, blank_data(s))
    IN  [a.s EXCEPT !.data = a.ref,
                    !.cache = <<>>,
                    !.changed = FALSE,
                    !.undo = Undo_clear(s.undo),
                    !.frame_count = 1,
                    !.current_frame = 0,
                    !.frames = <<a.ref>>]

\* VoxelData.clear
clear(s) == Ok(initialise_data(s), "None")

\* VoxelData.saved
saved(s) == Ok([s EXCEPT !.changed = FALSE], "None")

\* VoxelData.occlusion (setter)
set_occlusion(s, value) == Ok([s EXCEPT !.occlusion = value], "None")

\* ---------------------------------------------------- coordinate spaces
\* x // 2 for an integer x
FloorHalf(x) == x \div 2

\* VoxelData.voxel_to_world, on a point given in halves
voxel_to_world(s, p) ==
    <<(p[1] - 2 * FloorHalf(s.width)) - 1,
      (p[2] - 2 * FloorHalf(s.height)) - 1,
      -((p[3] - 2 * FloorHalf(s.depth)) - 1)>>

\* world_to_voxel without the negation of z.
world_to_voxel_z_kept(s, p) ==
    <<(p[1] + 2 * FloorHalf(s.width)) + 1,
      (p[2] + 2 * FloorHalf(s.height)) + 1,
      (p[3] - 2 * FloorHalf(s.depth)) - 1>>
\* VoxelData.world_to_voxel, on a point given in halves
world_to_voxel(s, p) ==
    <<(p[1] + 2 * FloorHalf(s.width)) + 1,
      (p[2] + 2 * FloorHalf(s.height)) + 1,
      -((p[3] - 2 * FloorHalf(s.depth)) - 1)>>

\* ------------------------------------------------------------- the mesh
\* a + b for triples
Plus(a, b) == <<a[1] + b[1], a[2] + b[2], a[3] + b[3]>>

\* (c >> shift) & 0xff for a packed colour c below 2^31, shift given as 2^shift
Byte(c, pow) == (c \div pow) % 256

\* int(v * math.pow(OCCLUSION, level)): the product truncated.  For the
\* colour components the model draws with, the floating-point product
\* truncates to the same integer as the exact one.
Shade(v, level) == (v * OCCLUSION_TENTHS ^ level) \div (10 ^ level)

\* a | b for naturals
RECURSIVE BitOr(_, _)
BitOr(a, b) ==
    IF a = 0 THEN b
    ELSE IF b = 0 THEN a
    ELSE (IF a % 2 = 1 \/ b % 2 = 1 THEN 1 ELSE 0) + 2 * BitOr(a \div 2, b \div 2)

\* a & b for naturals
RECURSIVE BitAnd(_, _)
BitAnd(a, b) ==
    IF a = 0 \/ b = 0 THEN 0
    ELSE (IF a % 2 = 1 /\ b % 2 = 1 THEN 1 ELSE 0) + 2 * BitAnd(a \div 2, b \div 2)

\* The colour ID with x shifted by 16 bits instead of 17.
colour_id_x_at_16(x, y, z, f) ==
    LET voxel_id == BitOr(BitOr(BitAnd(x, 127) * 65536, BitAnd(y, 127) * 1024),
                          BitAnd(z, 127) * 8)
    IN  <<BitAnd(voxel_id, 16711680) \div 65536, BitAnd(voxel_id, 65280) \div 256,
          BitOr(BitAnd(voxel_id, 255), f)>>
\* The colour ID of face f of voxel (x,y,z): voxel_id and its three bytes,
\* the face number or'ed into the last.
\* voxel_id = (x & 0x7f)<<17 | (y & 0x7f)<<10 | (z & 0x7f)<<3
colour_id(x, y, z, f) ==
    LET voxel_id == BitOr(BitOr(BitAnd(x, 127) * 131072, BitAnd(y, 127) * 1024),
                          BitAnd(z, 127) * 8)
        id_r == BitAnd(voxel_id, 16711680) \div 65536
        id_g == BitAnd(voxel_id, 65280) \div 256
        id_b == BitAnd(voxel_id, 255)
    IN  <<id_r, id_g, BitOr(id_b, f)>>

\* The six blocks of _get_voxel_vertices in the order of the code: front,
\* top, right, left, back, bottom.  For each: the number or'ed into the
\* colour ID, the neighbour whose emptiness opens the face, the normal, the
\* occlusion tests in the order of the code (the neighbour read and the
\* corners occ1..occ4 it increments), and the 6 vertices (offset in voxel
\* units from the world position of the voxel, and the corner whose shade
\* the vertex takes).
FaceBlocks ==
    << [id |-> 0, open |-> <<0, 0, -1>>, normal |-> <<0, 0, 1>>,
        tests |-> << <<<<0, 1, -1>>, {2, 4}>>, <<<<-1, 0, -1>>, {1, 2}>>,
                     <<<<1, 0, -1>>, {3, 4}>>, <<<<0, -1, -1>>, {1, 3}>>,
                     <<<<-1, -1, -1>>, {1}>>, <<<<-1, 1, -1>>, {2}>>,
                     <<<<1, -1, -1>>, {3}>>, <<<<1, 1, -1>>, {4}>> >>,
        verts |-> << <<<<0, 0, 0>>, 1>>, <<<<0, 1, 0>>, 2>>, <<<<1, 0, 0>>, 3>>,
                     <<<<1, 0, 0>>, 3>>, <<<<0, 1, 0>>, 2>>, <<<<1, 1, 0>>, 4>> >>],
       [id |-> 1, open |-> <<0, 1, 0>>, normal |-> <<0, 1, 0>>,
        tests |-> << <<<<0, 1, 1>>, {2, 4}>>, <<<<-1, 1, 0>>, {1, 2}>>,
                     <<<<1, 1, 0>>, {3, 4}>>, <<<<0, 1, -1>>, {1, 3}>>,
                     <<<<-1, 1, -1>>, {1}>>, <<<<1, 1, -1>>, {3}>>,
                     <<<<1, 1, 1>>, {4}>>, <<<<-1, 1, 1>>, {2}>> >>,
        verts |-> << <<<<0, 1, 0>>, 1>>, <<<<0, 1, -1>>, 2>>, <<<<1, 1, 0>>, 3>>,
                     <<<<1, 1, 0>>, 3>>, <<<<0, 1, -1>>, 2>>, <<<<1, 1, -1>>, 4>> >>],
       [id |-> 3, open |-> <<1, 0, 0>>, normal |-> <<1, 0, 0>>,
        tests |-> << <<<<1, 1, 0>>, {2, 4}>>, <<<<1, 0, -1>>, {1, 2}>>,
                     <<<<1, 0, 1>>, {3, 4}>>, <<<<1, -1, 0>>, {1, 3}>>,
                     <<<<1, -1, -1>>, {1}>>, <<<<1, 1, -1>>, {2}>>,
                     <<<<1, -1, 1>>, {3}>>, <<<<1, 1, 1>>, {4}>> >>,
        verts |-> << <<<<1, 0, 0>>, 1>>, <<<<1, 1, 0>>, 2>>, <<<<1, 0, -1>>, 3>>,
                     <<<<1, 0, -1>>, 3>>, <<<<1, 1, 0>>, 2>>, <<<<1, 1, -1>>, 4>> >>],
       [id |-> 2, open |-> <<-1, 0, 0>>, normal |-> <<-1, 0, 0>>,
        tests |-> << <<<<-1, 1, 0>>, {2, 4}>>, <<<<-1, 0, 1>>, {1, 2}>>,
                     <<<<-1, 0, -1>>, {3, 4}>>, <<<<-1, -1, 0>>, {1, 3}>>,
                     <<<<-1, -1, 1>>, {1}>>, <<<<-1, 1, 1>>, {2}>>,
                     <<<<-1, -1, -1>>, {3}>>, <<<<-1, 1, -1>>, {4}>> >>,
        verts |-> << <<<<0, 0, -1>>, 1>>, <<<<0, 1, -1>>, 2>>, <<<<0, 0, 0>>, 3>>,
                     <<<<0, 0, 0>>, 3>>, <<<<0, 1, -1>>, 2>>, <<<<0, 1, 0>>, 4>> >>],
       [id |-> 4, open |-> <<0, 0, 1>>, normal |-> <<0, 0, -1>>,
        tests |-> << <<<<0, 1, 1>>, {2, 4}>>, <<<<1, 0, 1>>, {1, 2}>>,
                     <<<<-1, 0, 1>>, {3, 4}>>, <<<<0, -1, 1>>, {1, 3}>>,
                     <<<<1, -1, 1>>, {1}>>, <<<<1, 1, 1>>, {2}>>,
                     <<<<-1, -1, 1>>, {3}>>, <<<<-1, 1, 1>>, {4}>> >>,
        verts |-> << <<<<1, 0, -1>>, 1>>, <<<<1, 1, -1>>, 2>>, <<<<0, 0, -1>>, 3>>,
                     <<<<0, 0, -1>>, 3>>, <<<<1, 1, -1>>, 2>>, <<<<0, 1, -1>>, 4>> >>],
       [id |-> 5, open |-> <<0, -1, 0>>, normal |-> <<0, -1, 0>>,
        tests |-> << <<<<0, -1, -1>>, {2, 4}>>, <<<<-1, -1, 0>>, {1, 2}>>,
                     <<<<1, -1, 0>>, {3, 4}>>, <<<<0, -1, 1>>, {1, 3}>>,
                     <<<<-1, -1, 1>>, {1}>>, <<<<-1, -1, -1>>, {2}>>,
                     <<<<1, -1, 1>>, {3}>>, <<<<1, -1, -1>>, {4}>> >>,
        verts |-> << <<<<0, 0, -1>>, 1>>, <<<<0, 0, 0>>, 2>>, <<<<1, 0, -1>>, 3>>,
                     <<<<1, 0, -1>>, 3>>, <<<<0, 0, 0>>, 2>>, <<<<1, 0, 0>>, 4>> >>] >>

\* self.get(...) at v plus offset o
GetAt(s, v, o) == get(s, v[1] + o[1], v[2] + o[2], v[3] + o[3])

\* occ1..occ4 with every occupied neighbour tested counted at every corner.
Occlusion_every_corner(s, v, block) ==
    [k \in 1 .. 4 |->
        IF s.occlusion
        THEN Cardinality({i \in DOMAIN block.tests :
                            GetAt(s, v, block.tests[i][1]).ret # EMPTY})
        ELSE 0]
\* occ1..occ4 of one block: with _occlusion set, each test whose neighbour
\* is not EMPTY adds one to the corners it names.
Occlusion(s, v, block) ==
    [k \in 1 .. 4 |->
        IF s.occlusion
        THEN Cardinality({i \in DOMAIN block.tests :
                            /\ k \in block.tests[i][2]
                            /\ GetAt(s, v, block.tests[i][1]).ret # EMPTY})
        ELSE 0]

\* What one block appends to the five arrays.
Face(s, v, block) ==
    LET c == get(s, v[1], v[2], v[3]).ret
        shades == [level \in 0 .. 4 |->
                     <<Shade(Byte(c, 16777216), level), Shade(Byte(c, 65536), level),
                       Shade(Byte(c, 256), level)>>]
        occ == Occlusion(s, v, block)
        w == voxel_to_world(s, <<2 * v[1], 2 * v[2], 2 * v[3]>>)
    IN  [face |-> block.id,
         voxel |-> v,
         occ |-> occ,
         vertices |-> [i \in 1 .. 6 |->
                         Plus(w, <<2 * block.verts[i][1][1], 2 * block.verts[i][1][2],
                                   2 * block.verts[i][1][3]>>)],
         colours |-> [i \in 1 .. 6 |-> shades[occ[block.verts[i][2]]]],
         uvs |-> <<0, 0, 0, 1, 1, 0, 1, 0, 0, 1, 1, 1>>,
         normals |-> [i \in 1 .. 6 |-> block.normal],
         colour_ids |-> [i \in 1 .. 6 |-> colour_id(v[1], v[2], v[3], block.id)]]

\* The coordinates _get_voxel_vertices reads for voxel v: the voxel, its six
\* neighbours and, with _occlusion set, the tests of every open block.
Reads(s, v) ==
    {v} \cup {Plus(v, FaceBlocks[b].open) : b \in DOMAIN FaceBlocks}
        \cup UNION {{Plus(v, FaceBlocks[b].tests[i][1]) : i \in DOMAIN FaceBlocks[b].tests} :
                      b \in {a \in DOMAIN FaceBlocks :
                                /\ s.occlusion
                                /\ GetAt(s, v, FaceBlocks[a].open).ret = EMPTY}}

\* _get_voxel_vertices running every block, open or not.
get_voxel_vertices_every_block(s, v) ==
    [raised |-> \E r \in Reads(s, v) : get(s, r[1], r[2], r[3]).raised,
     ret |-> [i \in DOMAIN FaceBlocks |-> Face(s, v, FaceBlocks[i])]]
\* VoxelData._get_voxel_vertices: the faces of the open blocks, in the order
\* of the code; raised when one of the reads is an IndexError.
get_voxel_vertices(s, v) ==
    LET opened == SelectSeq(FaceBlocks, LAMBDA block : GetAt(s, v, block.open).ret = EMPTY)
    IN  [raised |-> \E r \in Reads(s, v) : get(s, r[1], r[2], r[3]).raised,
         ret |-> [i \in DOMAIN opened |-> Face(s, v, opened[i])]]

\* VoxelData.get_vertices: the faces of every entry of _cache, in its order.
RECURSIVE FacesOf(_, _)
FacesOf(s, cache) ==
    IF cache = <<>> THEN <<>>
    ELSE get_voxel_vertices(s, Head(cache)).ret \o FacesOf(s, Tail(cache))

get_vertices(s) ==
    [raised |-> \E i \in DOMAIN s.cache : get_voxel_vertices(s, s.cache[i]).raised,
     ret |-> FacesOf(s, s.cache)]

\* ------------------------------------------------------------ tool.py
\* Face
FRONT == 0
TOP == 1
LEFT == 2
RIGHT == 3
BACK == 4
BOTTOM == 5
\* The face of a target that is on no voxel (face is None).
NoFace == -1

\* get_neighbour with the directions of LEFT and RIGHT exchanged.
get_neighbour_left_right_exchanged(face, x, y, z) ==
    IF face = NoFace THEN <<>>
    ELSE IF face = TOP THEN <<x, y + 1, z>>
    ELSE IF face = BOTTOM THEN <<x, y - 1, z>>
    ELSE IF face = BACK THEN <<x, y, z + 1>>
    ELSE IF face = FRONT THEN <<x, y, z - 1>>
    ELSE IF face = LEFT THEN <<x + 1, y, z>>
    ELSE IF face = RIGHT THEN <<x - 1, y, z>>
    ELSE <<x, y, z>>
\* EventData.get_neighbour, for the target's face and world_x, world_y,
\* world_z; the empty tuple stands for None.
get_neighbour(face, x, y, z) ==
    IF face = NoFace THEN <<>>
    ELSE IF face = TOP THEN <<x, y + 1, z>>
    ELSE IF face = BOTTOM THEN <<x, y - 1, z>>
    ELSE IF face = BACK THEN <<x, y, z + 1>>
    ELSE IF face = FRONT THEN <<x, y, z - 1>>
    ELSE IF face = LEFT THEN <<x - 1, y, z>>
    ELSE IF face = RIGHT THEN <<x + 1, y, z>>
    ELSE <<x, y, z>>

\* --------------------------------------------- plugins/tool_draw.py
\* An EventData: the face, world_x, world_y, world_z and the mouse button,
\* "LEFT" or "RIGHT".
EventData(face, world, mouse_button) ==
    [face |-> face, world |-> world, mouse_button |-> mouse_button]

\* _draw_voxel setting the voxel at the target itself.
draw_voxel_at_target(s, target, colour) ==
    LET r == set(s, target.world[1], target.world[2], target.world[3], colour, TRUE)
    IN  IF r.raised THEN Raise(r.s)
        ELSE IF r.ret = "True" THEN Ok(r.s, {target}) ELSE Ok(r.s, {})
\* DrawingTool._draw_voxel: the result is the set of the target returned,
\* empty for None.
draw_voxel(s, target, colour) ==
    LET pos == get_neighbour(target.face, target.world[1], target.world[2],
                             target.world[3])
        moved == IF pos # <<>> THEN [target EXCEPT !.world = pos] ELSE target
        r == set(s, moved.world[1], moved.world[2], moved.world[3], colour, TRUE)
    IN  IF r.raised THEN Raise(r.s)
        ELSE IF r.ret = "True" THEN Ok(r.s, {moved}) ELSE Ok(r.s, {})

\* DrawingTool.on_mouse_click, with the palette colour and the tool's
\* _first_target: the result is the _first_target after the call.
on_mouse_click(s, data, colour, first_target) ==
    IF data.mouse_button = "LEFT" THEN draw_voxel(s, data, colour)
    ELSE IF data.mouse_button = "RIGHT"
    THEN LET r == set(s, data.world[1], data.world[2], data.world[3], 0, TRUE)
         IN  IF r.raised THEN Raise(r.s) ELSE Ok(r.s, first_target)
    ELSE Ok(s, first_target)

\* GLWidget.window_to_voxel for a pixel <<r, g, b>> read from the colour-ID
\* rendering: <<x, y, z, face>>, or "background" when the ID is 0xffffff
\* (the floor intersection is then computed from the window coordinates).
window_to_voxel(pixel) ==
    LET voxelid == BitOr(BitOr(pixel[1] * 65536, pixel[2] * 256), pixel[3])
    IN  IF voxelid = 16777215 THEN "background"
        ELSE <<BitAnd(voxelid, 16646144) \div 131072,
               BitAnd(voxelid, 130048) \div 1024,
               BitAnd(voxelid, 1016) \div 8,
               BitAnd(voxelid, 7)>>

\* The last element, in the order the loops visit them, of a non-empty set of
\* coordinates: x outermost, then y, then z.
LastVisited(S) ==
    CHOOSE c \in S : \A e \in S :
        \/ e[1] < c[1]
        \/ e[1] = c[1] /\ e[2] < c[2]
        \/ e[1] = c[1] /\ e[2] = c[2] /\ e[3] <= c[3]

\* A copy loop that writes every voxel at the coordinate it was read from.
CopyInto_same_place(w, h, d, dst, old) ==
    [c \in Cells(w, h, d) |-> IF c \in DOMAIN dst THEN old[c] ELSE 0]

\* The grid a copy loop fills: new is all 0, and for every src the loop
\* visits (the domain of dst), in loop order, new[dst[src]] = old[src].
CopyInto(w, h, d, dst, old) ==
    [c \in Cells(w, h, d) |->
        LET from == {t \in DOMAIN dst : dst[t] = c}
        IN  IF from = {} THEN 0 ELSE old[LastVisited(from)]]

\* translate that moves the content against the delta.
translate_reversed(s, x, y, z, record) ==
    IF x = 0 /\ y = 0 /\ z = 0 THEN Ok(s, "None")
    ELSE LET a == IF record
                  THEN Undo_add(s.undo, UndoItem(TRANSLATE, <<-x, -y, -z>>, <<x, y, z>>))
                  ELSE [u |-> s.undo, raised |-> FALSE]
             s1 == [s EXCEPT !.undo = a.u]
             cells == Cells(s.width, s.height, s.depth)
             dst == [t \in cells |-> <<(t[1] - x) % s.width, (t[2] - y) % s.height,
                                       (t[3] - z) % s.depth>>]
         IN  IF a.raised THEN Raise(s1)
             ELSE IF \E t \in cells : t \notin DOMAIN Grid(s) THEN Raise(s1)
             ELSE LET n == Alloc(s1, CopyInto(s.width, s.height, s.depth,
                                              dst, Grid(s)))
                      s2 == [n.s EXCEPT !.data = n.ref]
                  IN  IF ~InRange(s2.frames, s2.current_frame) THEN Raise(s2)
                      ELSE LET r == cache_rebuild([s2 EXCEPT !.frames =
                                      ListSet(s2.frames, s2.current_frame, n.ref)])
                           IN  IF r.raised THEN r
                               ELSE Ok([r.s EXCEPT !.changed = TRUE], "None")

\* VoxelData.translate
translate(s, x, y, z, record) ==
    IF x = 0 /\ y = 0 /\ z = 0 THEN Ok(s, "None")
    ELSE LET a == IF record
                  THEN Undo_add(s.undo, UndoItem(TRANSLATE, <<-x, -y, -z>>, <<x, y, z>>))
                  ELSE [u |-> s.undo, raised |-> FALSE]
             s1 == [s EXCEPT !.undo = a.u]
             cells == Cells(s.width, s.height, s.depth)
             dst == [t \in cells |-> <<(t[1] + x) % s.width, (t[2] + y) % s.height,
                                       (t[3] + z) % s.depth>>]
         IN  IF a.raised THEN Raise(s1)
             ELSE IF \E t \in cells : t \notin DOMAIN Grid(s) THEN Raise(s1)
             ELSE LET n == Alloc(s1, CopyInto(s.width, s.height, s.depth,
                                              dst, Grid(s)))
                      s2 == [n.s EXCEPT !.data = n.ref]
                  IN  IF ~InRange(s2.frames, s2.current_frame) THEN Raise(s2)
                      ELSE LET r == cache_rebuild([s2 EXCEPT !.frames =
                                      ListSet(s2.frames, s2.current_frame, n.ref)])
                           IN  IF r.raised THEN r
                               ELSE Ok([r.s EXCEPT !.changed = TRUE], "None")

\* Replay with undo recording left on.
Replay_recorded(s, operation, d) ==
    IF operation = SET_VOXEL THEN set(s, d[1], d[2], d[3], d[4], TRUE)
    ELSE IF operation = TRANSLATE THEN translate(s, d[1], d[2], d[3], TRUE)
    ELSE Ok(s, "None")

\* Replaying an UndoItem's old or new data, as VoxelData.undo and redo do.
Replay(s, operation, d) ==
    IF operation = SET_VOXEL THEN set(s, d[1], d[2], d[3], d[4], FALSE)
    ELSE IF operation = TRANSLATE THEN translate(s, d[1], d[2], d[3], FALSE)
    ELSE Ok(s, "None")

\* VoxelData.undo
VoxelData_undo(s) ==
    LET op == Undo_undo(s.undo)
        s1 == [s EXCEPT !.undo = op.u]
    IN  IF op.raised THEN Raise(s1)
        ELSE IF op.item = <<>> THEN Ok(s1, "None")
        ELSE LET r == Replay(s1, op.item[1].operation, op.item[1].olddata)
             IN  IF r.raised THEN r ELSE Ok(r.s, "None")

\* VoxelData.redo replaying the old data of the item.
VoxelData_redo_old_data(s) ==
    LET op == Undo_redo(s.undo)
        s1 == [s EXCEPT !.undo = op.u]
    IN  IF op.raised THEN Raise(s1)
        ELSE IF op.item = <<>> THEN Ok(s1, "None")
        ELSE LET r == Replay(s1, op.item[1].operation, op.item[1].olddata)
             IN  IF r.raised THEN r ELSE Ok(r.s, "None")

\* VoxelData.redo
VoxelData_redo(s) ==
    LET op == Undo_redo(s.undo)
        s1 == [s EXCEPT !.undo = op.u]
    IN  IF op.raised THEN Raise(s1)
        ELSE IF op.item = <<>> THEN Ok(s1, "None")
        ELSE LET r == Replay(s1, op.item[1].operation, op.item[1].newdata)
             IN  IF r.raised THEN r ELSE Ok(r.s, "None")

\* VoxelData.disable_undo
disable_undo(s) == Ok([s EXCEPT !.undo.enabled = FALSE], "None")

\* ------------------------------------------------- resize and rotation
Max(S) == CHOOSE m \in S : \A n \in S : m >= n
\* min() that returns its second argument.
MinOf_second(a, b) == b
MinOf(a, b) == IF a < b THEN a ELSE b

\* The starting value of the minima (and, negated, of the maxima) of
\* get_bounding_box.
BoxSentinel == 999

\* get_bounding_box that scans the current frame only.
get_bounding_box_current_frame(s) ==
    LET cells == Cells(s.width, s.height, s.depth)
        grids == {Grid(s)}
        occupied == {c \in cells : \E g \in grids : g[c] # EMPTY}
        lo(k) == Min({BoxSentinel} \cup {c[k] : c \in occupied})
        hi(k) == Max({-BoxSentinel} \cup {c[k] : c \in occupied})
    IN  IF \E g \in grids : \E c \in cells : c \notin DOMAIN g
        THEN [raised |-> TRUE, box |-> <<>>]
        ELSE [raised |-> FALSE,
              box |-> <<lo(1), lo(2), lo(3),
                        (hi(1) - lo(1)) + 1, (hi(2) - lo(2)) + 1, (hi(3) - lo(3)) + 1>>]

\* VoxelData.get_bounding_box: raised when a frame does not hold a coordinate
\* of the scan; otherwise box = <<minx, miny, minz, width, height, depth>>.
get_bounding_box(s) ==
    LET cells == Cells(s.width, s.height, s.depth)
        grids == {s.heap[s.frames[i]] : i \in DOMAIN s.frames}
        occupied == {c \in cells : \E g \in grids : g[c] # EMPTY}
        lo(k) == Min({BoxSentinel} \cup {c[k] : c \in occupied})
        hi(k) == Max({-BoxSentinel} \cup {c[k] : c \in occupied})
    IN  IF \E g \in grids : \E c \in cells : c \notin DOMAIN g
        THEN [raised |-> TRUE, box |-> <<>>]
        ELSE [raised |-> FALSE,
              box |-> <<lo(1), lo(2), lo(3),
                        (hi(1) - lo(1)) + 1, (hi(2) - lo(2)) + 1, (hi(3) - lo(3)) + 1>>]

\* A negative index -k-1 read as k: counting from the front, not the end.
PyIndex_from_front(i, n) == IF i < 0 THEN (-i) - 1 ELSE i

\* A list index as Python resolves it in a list of length n: negative
\* indices count from the end.
PyIndex(i, n) == IF i < 0 THEN i + n ELSE i

\* ReplaceFrames that replaces the current frame only.
ReplaceFrames_current_only(s, grids) ==
    LET n == Len(s.heap)
        cur == s.current_frame + 1
    IN  [s EXCEPT !.heap = s.heap \o grids,
                  !.frames = [i \in DOMAIN s.frames |->
                                 IF i = cur THEN n + i ELSE s.frames[i]]]

\* Every frame replaced by a new object: frame i becomes grids[i].
ReplaceFrames(s, grids) ==
    LET n == Len(s.heap)
    IN  [s EXCEPT !.heap = s.heap \o grids,
                  !.frames = [i \in DOMAIN s.frames |-> n + i]]

\* VoxelData.resize; a width of 0 stands for no dimensions given.
resize(s, w, h, d, shift) ==
    LET s1 == [s EXCEPT !.undo = Undo_clear(s.undo)]
        bb == get_bounding_box(s1)
        auto == w = 0
        nw == IF auto THEN bb.box[4] ELSE w
        nh == IF auto THEN bb.box[5] ELSE h
        nd == IF auto THEN bb.box[6] ELSE d
        mx == bb.box[1]
        my == bb.box[2]
        mz == bb.box[3]
        srcs == (mx .. mx + MinOf(nw, bb.box[4]) - 1)
                    \X (my .. my + MinOf(nh, bb.box[5]) - 1)
                    \X (mz .. mz + MinOf(nd, bb.box[6]) - 1)
        dst == [t \in srcs |-> <<PyIndex(t[1] + (0 - mx) + shift, nw),
                                  PyIndex(t[2] + (0 - my) + shift, nh),
                                  PyIndex(t[3] + (0 - mz) + shift, nd)>>]
        fill(g) == CopyInto(nw, nh, nd, dst, g)
    IN  IF bb.raised THEN Raise(s1)
        \* the copy loop is the same for every frame: the first frame raises
        \* the IndexError of a destination outside the new array
        ELSE IF s1.frames # <<>> /\ \E t \in srcs : dst[t] \notin Cells(nw, nh, nd)
             THEN Raise(s1)
        ELSE LET s2 == ReplaceFrames(s1, [i \in DOMAIN s1.frames |->
                                                fill(s1.heap[s1.frames[i]])])
             IN  IF ~InRange(s2.frames, s2.current_frame) THEN Raise(s2)
                 ELSE LET r == cache_rebuild([s2 EXCEPT
                                   !.data = At(s2.frames, s2.current_frame),
                                   !.width = nw, !.height = nh, !.depth = nd])
                      IN  IF r.raised THEN r
                          ELSE Ok([r.s EXCEPT !.changed = TRUE], "None")

\* VoxelData.rotate_about_axis, for one of the three axis constants
rotate_about_axis(s, axis) ==
    LET s1 == [s EXCEPT !.undo = Undo_clear(s.undo)]
        nw == IF axis = Y_AXIS THEN s.depth ELSE IF axis = X_AXIS THEN s.width ELSE s.height
        nh == IF axis = Y_AXIS THEN s.height ELSE IF axis = X_AXIS THEN s.depth ELSE s.width
        nd == IF axis = Y_AXIS THEN s.width ELSE IF axis = X_AXIS THEN s.height ELSE s.depth
        cells == Cells(s.width, s.height, s.depth)
        dst == [t \in cells |->
                   IF axis = Y_AXIS
                   THEN <<PyIndex((-t[3]) - 1, nw), t[2], t[1]>>
                   ELSE IF axis = X_AXIS
                   THEN <<t[1], PyIndex((-t[3]) - 1, nh), t[2]>>
                   ELSE <<t[2], PyIndex((-t[1]) - 1, nh), t[3]>>]
        fill(g) == CopyInto(nw, nh, nd, dst, g)
        \* the frames whose copy loop reads a coordinate they do not hold
        bad == {i \in DOMAIN s.frames :
                   \E c \in cells : c \notin DOMAIN s.heap[s.frames[i]]}
        upto == IF bad = {} THEN Len(s.frames) ELSE Min(bad) - 1
        s2 == [s1 EXCEPT
                 !.heap = s.heap \o [i \in 1 .. upto |-> fill(s.heap[s.frames[i]])],
                 !.frames = [i \in DOMAIN s.frames |->
                                IF i <= upto THEN Len(s.heap) + i ELSE s.frames[i]]]
        s3 == [s2 EXCEPT !.width = nw, !.height = nh, !.depth = nd]
    IN  IF bad # {} THEN Raise(s2)
        ELSE IF ~InRange(s3.frames, s3.current_frame) THEN Raise(s3)
        ELSE LET r == cache_rebuild([s3 EXCEPT !.data = At(s3.frames, s3.current_frame)])
             IN  IF r.raised THEN r
                 ELSE Ok([r.s EXCEPT !.changed = TRUE], "None")

\* voxels.expand(dx, dy, dz): VoxelData defines no attribute expand, in the
\* class or in an instance, so the attribute lookup raises AttributeError
\* before anything is called.
expand(s, dx, dy, dz) == Raise(s)

\* --------------------------------------------- plugins/tool_fill.py
\* One pass of the loop "while len(search)" of FillTool.on_activate with a
\* search list that is not empty: the last coordinate is popped; when it
\* holds the search colour, its neighbours that hold it are appended and the
\* voxel is set to the fill colour.  The loop without the two neighbours
\* along z:
on_activate_loop_in_plane(s, search, search_colour, colour) ==
    LET c == search[Len(search)]
        rest == SubSeq(search, 1, Len(search) - 1)
        voxel == get(s, c[1], c[2], c[3])
        likely == << <<c[1] - 1, c[2], c[3]>>, <<c[1] + 1, c[2], c[3]>>,
                     <<c[1], c[2] + 1, c[3]>>, <<c[1], c[2] - 1, c[3]>> >>
        r == set(s, c[1], c[2], c[3], colour, TRUE)
    IN  IF voxel.raised THEN [s |-> s, search |-> rest, raised |-> TRUE]
        ELSE IF voxel.ret = EMPTY \/ voxel.ret # search_colour
        THEN [s |-> s, search |-> rest, raised |-> FALSE]
        ELSE IF \E i \in DOMAIN likely : get(s, likely[i][1], likely[i][2], likely[i][3]).raised
        THEN [s |-> s, search |-> rest, raised |-> TRUE]
        ELSE [s |-> r.s, raised |-> r.raised,
              search |-> rest \o SelectSeq(likely, LAMBDA n :
                                    get(s, n[1], n[2], n[3]).ret = search_colour)]
\* and the loop of the source.
on_activate_loop(s, search, search_colour, colour) ==
    LET c == search[Len(search)]
        rest == SubSeq(search, 1, Len(search) - 1)
        voxel == get(s, c[1], c[2], c[3])
        likely == << <<c[1] - 1, c[2], c[3]>>, <<c[1] + 1, c[2], c[3]>>,
                     <<c[1], c[2] + 1, c[3]>>, <<c[1], c[2] - 1, c[3]>>,
                     <<c[1], c[2], c[3] + 1>>, <<c[1], c[2], c[3] - 1>> >>
        r == set(s, c[1], c[2], c[3], colour, TRUE)
    IN  IF voxel.raised THEN [s |-> s, search |-> rest, raised |-> TRUE]
        ELSE IF voxel.ret = EMPTY \/ voxel.ret # search_colour
        THEN [s |-> s, search |-> rest, raised |-> FALSE]
        ELSE IF \E i \in DOMAIN likely : get(s, likely[i][1], likely[i][2], likely[i][3]).raised
        THEN [s |-> s, search |-> rest, raised |-> TRUE]
        ELSE [s |-> r.s, raised |-> r.raised,
              search |-> rest \o SelectSeq(likely, LAMBDA n :
                                    get(s, n[1], n[2], n[3]).ret = search_colour)]

\* ------------------------------------------------ plugins/io_zoxel.py
\* The file version ZoxelFile supports (self._file_version).
file_version == 1

\* The loop "for x, y, z, v in frame: voxels.set(x, y, z, v)": unpacking an
\* entry that is not of 4 elements raises ValueError, with the entries
\* before it written.
RECURSIVE WriteFrame(_, _)
WriteFrame(s, frame) ==
    IF frame = <<>> THEN Ok(s, "None")
    ELSE IF Len(Head(frame)) # 4 THEN Raise(s)
    ELSE LET e == Head(frame)
             r == set(s, e[1], e[2], e[3], e[4], TRUE)
         IN  IF r.raised THEN Raise(r.s) ELSE WriteFrame(r.s, Tail(frame))

\* The loop that determines the size of a file with no dimensions: the
\* largest x, y and z of the entries, starting from -127, plus 1.
SizeOf(frame) ==
    [k \in 1 .. 3 |-> Max({-127} \cup {frame[i][k] : i \in DOMAIN frame}) + 1]

\* ZoxelFile.load with the version compared after the volume was resized.
ZoxelFile_load_resizes_first(s, file) ==
    IF ~file.json THEN Raise(s)
    ELSE IF "frame1" \notin file.keys THEN Raise(s)
    ELSE LET r == resize(s, file.dims[1], file.dims[2], file.dims[3], 0)
         IN  IF r.raised THEN Raise(r.s)
             ELSE IF file.version > file_version THEN Raise(r.s)
             ELSE WriteFrame(r.s, file.frame1)
\* ZoxelFile.load, given what the text of the file parses to
ZoxelFile_load(s, file) ==
    IF ~file.json THEN Raise(s)
    ELSE IF "version" \notin file.keys THEN Raise(s)
    ELSE IF file.version > file_version THEN Raise(s)
    ELSE IF "frame1" \notin file.keys THEN Raise(s)
    ELSE IF "width" \in file.keys
            /\ ("height" \notin file.keys \/ "depth" \notin file.keys)
    THEN Raise(s)
    ELSE IF "width" \notin file.keys
            /\ \E i \in DOMAIN file.frame1 : Len(file.frame1[i]) # 4
    THEN Raise(s)
    ELSE LET size == IF "width" \in file.keys THEN file.dims
                     ELSE SizeOf(file.frame1)
             r == resize(s, size[1], size[2], size[3], 0)
         IN  IF r.raised THEN Raise(r.s) ELSE WriteFrame(r.s, file.frame1)

\* ZoxelFile.save with the loops nested as in _cache_rebuild: x outermost.
ZoxelFile_save_x_outermost(s) ==
    LET n == IF s.width <= 0 \/ s.height <= 0 \/ s.depth <= 0 THEN 0
             ELSE s.width * s.height * s.depth
        order == [i \in 1 .. n |->
                    <<(i - 1) \div (s.height * s.depth), (i - 1) % s.height,
                      ((i - 1) \div s.height) % s.depth>>]
        v(c) == get(s, c[1], c[2], c[3])
        full == SelectSeq(order, LAMBDA c : v(c).ret # EMPTY)
    IN  [raised |-> \E i \in 1 .. n : v(order[i]).raised,
         file |-> [json |-> TRUE, keys |-> LoadKeys \cup {"frames", "creator"},
                   version |-> file_version,
                   dims |-> <<s.width, s.height, s.depth>>,
                   frame1 |-> [i \in DOMAIN full |->
                                  <<full[i][1], full[i][2], full[i][3], v(full[i]).ret>>]]]
\* ZoxelFile.save: the object written as JSON, as it parses when read back
\* (version, frames, creator, frame1, width, height and depth; frame1 is the
\* list of the [x, y, z, v] of the voxels that are not EMPTY, in the order
\* of the loops: y outermost, then z, then x).  raised when a voxel in
\* bounds cannot be read.
ZoxelFile_save(s) ==
    LET n == IF s.width <= 0 \/ s.height <= 0 \/ s.depth <= 0 THEN 0
             ELSE s.width * s.height * s.depth
        order == [i \in 1 .. n |->
                    <<(i - 1) % s.width, (i - 1) \div (s.depth * s.width),
                      ((i - 1) \div s.width) % s.depth>>]
        v(c) == get(s, c[1], c[2], c[3])
        full == SelectSeq(order, LAMBDA c : v(c).ret # EMPTY)
    IN  [raised |-> \E i \in 1 .. n : v(order[i]).raised,
         file |-> [json |-> TRUE, keys |-> LoadKeys \cup {"frames", "creator"},
                   version |-> file_version,
                   dims |-> <<s.width, s.height, s.depth>>,
                   frame1 |-> [i \in DOMAIN full |->
                                  <<full[i][1], full[i][2], full[i][3], v(full[i]).ret>>]]]

\* ---------------------------------------------- plugins/io_qubicle.py
\* The order of the voxel data of a matrix of w x h x d: z outermost, then
\* y, then x.
MatrixOrder(w, h, d) ==
    [i \in 1 .. (IF w <= 0 \/ h <= 0 \/ d <= 0 THEN 0 ELSE w * h * d) |->
        <<(i - 1) % w, ((i - 1) \div w) % h, (i - 1) \div (h * w)>>]

\* QubicleFile.save: the fields of the file, each written by uint32 as 4
\* bytes, lowest first.  The word of a voxel is r | g<<8 | b<<16 | alpha<<24
\* with alpha 0xff, or 0x00 for an EMPTY voxel: its bytes are r, g, b, alpha.
QubicleFile_save(s) ==
    LET order == MatrixOrder(s.width, s.height, s.depth)
        vox(c) == get(s, c[1], c[2], c[3])
    IN  [raised |-> \E i \in DOMAIN order : vox(order[i]).raised,
         file |-> [format |-> 0, compression |-> 0, matrix_count |-> 1,
                   dims |-> <<s.width, s.height, s.depth>>,
                   data |-> [i \in DOMAIN order |->
                               <<Byte(vox(order[i]).ret, 16777216),
                                 Byte(vox(order[i]).ret, 65536),
                                 Byte(vox(order[i]).ret, 256),
                                 IF vox(order[i]).ret = EMPTY THEN 0 ELSE 255>>]]]

\* The voxels QubicleFile.load sets for the data of a matrix: a word read
\* back by uint32 is masked with 0x00ffffff, which drops alpha, and when
\* what is left is not 0 the voxel is set to r<<24 | g<<16 | b<<8 | 0xff.
MatrixVoxels(dims, data) ==
    LET order == MatrixOrder(dims[1], dims[2], dims[3])
        seen == SelectSeq([i \in DOMAIN order |-> <<order[i], data[i]>>],
                          LAMBDA e : e[2][1] + e[2][2] * 256 + e[2][3] * 65536 # 0)
    IN  [i \in DOMAIN seen |->
            <<seen[i][1][1], seen[i][1][2], seen[i][1][3],
              seen[i][2][1] * 16777216 + seen[i][2][2] * 65536 + seen[i][2][3] * 256 + 255>>]

\* The data loop of QubicleFile.load, after the resize that returned r.
QubicleFile_load_data(r, file) ==
    IF r.raised THEN Raise(r.s)
    ELSE WriteFrame(r.s, MatrixVoxels(file.dims, file.data))

\* QubicleFile.load of a file of one matrix.
QubicleFile_load(s, file) ==
    IF file.format # 0 \/ file.compression # 0 THEN Raise(s)
    \* a negative dimension is written by uint32 as a word above 127
    ELSE IF \E k \in 1 .. 3 : file.dims[k] > 127 \/ file.dims[k] < 0 THEN Raise(s)
    ELSE QubicleFile_load_data(resize(s, file.dims[1], file.dims[2], file.dims[3], 0),
                               file)

\* ------------------------------------------------------- mainwindow.py
\* The end of MainWindow.load: the volume is marked saved after resize().
MainWindow_load_finish(fitted, warned) ==
    [s |-> IF fitted.raised THEN fitted.s ELSE saved(fitted.s).s,
     raised |-> fitted.raised, ret |-> "None", warned |-> warned, declined |-> FALSE]

\* resize() to the bounding box, after the load of the handler returned
\* or raised.
MainWindow_load_fit(loaded) ==
    MainWindow_load_finish(resize(loaded.s, 0, 0, 0, 0), loaded.raised)

\* MainWindow.load, after a file was chosen in the dialog: the display is
\* cleared, the load of the handler runs inside try/except (handler is
\* None when no handler matches the file type, and None.load raises), and
\* then the volume is resized to its bounding box and marked saved.  When
\* the model has changes and confirm_save is declined, load returns at once.
\* warned: the message box of the except branch was shown; declined:
\* confirm_save was declined.
MainWindow_load(s, confirmed, handler, file) ==
    IF s.changed /\ ~confirmed
    THEN [s |-> s, raised |-> FALSE, ret |-> "None", warned |-> FALSE, declined |-> TRUE]
    ELSE IF handler = "ZoxelFile"
    THEN MainWindow_load_fit(ZoxelFile_load(clear(s).s, file))
    ELSE MainWindow_load_fit(Raise(clear(s).s))

\* ------------------------------------------------------------- actions
\* The fields after a call become the state. last records the call: its
\* name, whether it raised, what it returned, and chain, which counts the
\* calls of the sequence "set that returned true, undo, redo" made so far
\* with no other call in between.
Commit(r, op) ==
    /\ voxels' = Canon(r.s)
    /\ last' = [op |-> op, raised |-> r.raised, ret |-> r.ret,
                chain |-> IF op = "set" /\ r.ret = "True" THEN 1
                          ELSE IF op = "undo" /\ last.chain = 1 THEN 2
                          ELSE IF op = "redo" /\ last.chain = 2 THEN 3
                          ELSE 0]

\* The number of UndoItems in the undo buffer.
RECURSIVE ItemCount(_)
ItemCount(b) == IF b = <<>> THEN 0 ELSE Len(Head(b).v) + ItemCount(Tail(b))

RoomInLog == ItemCount(voxels.undo.buffer) < MaxItems

\* VoxelData.__init__, with dims for the default dimensions
ConstructedWith(dims) ==
    Canon(initialise_data(
        [width |-> dims[1], height |-> dims[2], depth |-> dims[3],
         heap |-> <<>>, data |-> 0, frames |-> <<>>, cache |-> <<>>,
         changed |-> FALSE, frame_count |-> 0, current_frame |-> 0,
         undo |-> Undo_init, occlusion |-> TRUE]))

Constructed == ConstructedWith(InitDims)

Init ==
    /\ voxels = Constructed
    /\ last = [op |-> "init", raised |-> FALSE, ret |-> "None", chain |-> 0]

Set(c, state) ==
    /\ RoomInLog
    /\ Commit(set(voxels, c[1], c[2], c[3], state, TRUE), "set")

Translate(delta) ==
    /\ RoomInLog
    /\ Commit(translate(voxels, delta[1], delta[2], delta[3], TRUE), "translate")

Undo == Commit(VoxelData_undo(voxels), "undo")

Redo == Commit(VoxelData_redo(voxels), "redo")

SelectFrame(n) == Commit(select_frame(voxels, n), "select_frame")

SelectNextFrame == Commit(select_next_frame(voxels), "select_next_frame")

SelectPreviousFrame == Commit(select_previous_frame(voxels), "select_previous_frame")

AddFrame(copy_current) ==
    /\ voxels.frame_count < MaxFrames
    /\ Commit(add_frame(voxels, copy_current), "add_frame")

DeleteFrame == Commit(delete_frame(voxels), "delete_frame")

Resize(a) == Commit(resize(voxels, a[1], a[2], a[3], a[4]), "resize")

\* resize() with no dimensions: adjust to the bounding box
ResizeToBox == Commit(resize(voxels, 0, 0, 0, 0), "resize")

RotateAboutAxis(axis) == Commit(rotate_about_axis(voxels, axis), "rotate_about_axis")

SetData(g) == Commit(set_data(voxels, g), "set_data")

Clear == Commit(clear(voxels), "clear")

Saved == Commit(saved(voxels), "saved")

\* Editing one frame.
Next ==
    \/ \E c \in CoordInputs, state \in Colours : Set(c, state)
    \/ \E delta \in DeltaInputs : Translate(delta)
    \/ Undo
    \/ Redo
    \/ \E a \in ResizeInputs : Resize(a)
    \/ ResizeToBox
    \/ \E axis \in {X_AXIS, Y_AXIS, Z_AXIS} : RotateAboutAxis(axis)
    \/ Clear

Spec == Init /\ [][Next]_vars

\* Editing an animation: the frame operations as well.
NextFrames ==
    \/ \E c \in FrameCoordInputs, state \in FrameColours : Set(c, state)
    \/ \E delta \in FrameDeltaInputs : Translate(delta)
    \/ Undo
    \/ Redo
    \/ \E n \in 0 .. MaxFrames : SelectFrame(n)
    \/ SelectNextFrame
    \/ SelectPreviousFrame
    \/ \E copy_current \in BOOLEAN : AddFrame(copy_current)
    \/ DeleteFrame
    \/ \E a \in FrameResizeInputs : Resize(a)
    \/ \E axis \in {X_AXIS, Y_AXIS, Z_AXIS} : RotateAboutAxis(axis)
    \/ Clear

SpecFrames == Init /\ [][NextFrames]_vars

\* Editing the frames of an animation: adding frames, moving between them
\* and editing, undoing and redoing in each.
NextAnim ==
    \/ \E c \in AnimCoordInputs, state \in FrameColours : Set(c, state)
    \/ \E delta \in FrameDeltaInputs : Translate(delta)
    \/ Undo
    \/ Redo
    \/ SelectNextFrame
    \/ \E copy_current \in BOOLEAN : AddFrame(copy_current)

SpecAnim == Init /\ [][NextAnim]_vars

\* Moving content in a volume of MoveDims.
InitMove ==
    /\ voxels = ConstructedWith(MoveDims)
    /\ last = [op |-> "init", raised |-> FALSE, ret |-> "None", chain |-> 0]

NextMove ==
    \/ \E c \in MoveCoordInputs, state \in Colours : Set(c, state)
    \/ \E delta \in MoveDeltaInputs : Translate(delta)
    \/ Undo
    \/ Redo

SpecMove == InitMove /\ [][NextMove]_vars

\* Resizing and rotating an animation whose frames are drawn with undo
\* recording switched off: VoxelData() followed by disable_undo().
InitTransform ==
    /\ voxels = disable_undo(Constructed).s
    /\ last = [op |-> "init", raised |-> FALSE, ret |-> "None", chain |-> 0]

NextTransform ==
    \/ \E c \in TransformCoordInputs, state \in FrameColours : Set(c, state)
    \/ SelectNextFrame
    \/ \E copy_current \in BOOLEAN : AddFrame(copy_current)
    \/ \E a \in TransformResizeInputs : Resize(a)
    \/ ResizeToBox
    \/ \E axis \in {X_AXIS, Y_AXIS, Z_AXIS} : RotateAboutAxis(axis)

SpecTransform == InitTransform /\ [][NextTransform]_vars

\* Editing a document: the mutations, clear and saved.
NextDocument ==
    \/ \E c \in DocumentCoordInputs, state \in FrameColours : Set(c, state)
    \/ \E delta \in DocumentDeltaInputs : Translate(delta)
    \/ Undo
    \/ Redo
    \/ \E a \in DocumentResizeInputs : Resize(a)
    \/ \E axis \in {X_AXIS, Y_AXIS, Z_AXIS} : RotateAboutAxis(axis)
    \/ \E g \in DocumentGrids : SetData(g)
    \/ Clear
    \/ Saved

SpecDocument == Init /\ [][NextDocument]_vars

\* Loading Zoxel files into a volume that was drawn in and has one or two
\* frames.  last keeps the file.
LoadZoxel(file) ==
    LET r == ZoxelFile_load(voxels, file)
    IN  /\ voxels' = Canon(r.s)
        /\ last' = [op |-> "load", raised |-> r.raised, ret |-> r.ret, chain |-> 0,
                    file |-> file]

NextLoad ==
    \/ \E c \in LoadCoordInputs, state \in FrameColours : Set(c, state)
    \/ \E copy_current \in BOOLEAN : AddFrame(copy_current)
    \/ SelectNextFrame
    \/ \E file \in LoadFiles : LoadZoxel(file)

SpecLoad == Init /\ [][NextLoad]_vars

\* Drawing with the DrawingTool in a volume of DrawDims: a click on a face
\* of the mesh, whose voxel and face number window_to_voxel decodes from the
\* colour ID of the face, or a click that hits no voxel, at a coordinate of
\* the floor; and undo.  last keeps the EventData and the tool's
\* _first_target.
InitDraw ==
    /\ voxels = ConstructedWith(DrawDims)
    /\ last = [op |-> "init", raised |-> FALSE, ret |-> "None", chain |-> 0]

MouseClick(data) ==
    LET r == on_mouse_click(voxels, data, DrawColour,
                            IF last.op = "on_mouse_click" THEN last.first_target ELSE {})
    IN  /\ RoomInLog
        /\ voxels' = Canon(r.s)
        /\ last' = [op |-> "on_mouse_click", raised |-> r.raised, ret |-> "None",
                    chain |-> 0, data |-> data,
                    first_target |-> IF r.raised THEN {} ELSE r.ret]

\* The EventData of a click on the i-th face of the mesh.
ClickOn(face, mouse_button) ==
    LET hit == window_to_voxel(face.colour_ids[1])
    IN  EventData(hit[4], <<hit[1], hit[2], hit[3]>>, mouse_button)

NextDraw ==
    \/ \E i \in DOMAIN get_vertices(voxels).ret, mouse_button \in {"LEFT", "RIGHT"} :
          MouseClick(ClickOn(get_vertices(voxels).ret[i], mouse_button))
    \/ \E c \in FloorInputs : MouseClick(EventData(NoFace, c, "LEFT"))
    \/ Undo

SpecDraw == InitDraw /\ [][NextDraw]_vars

\* Drawing in a volume of MeshDims with undo recording switched off, and
\* switching the occlusion setting.
InitMesh ==
    /\ voxels = disable_undo(ConstructedWith(MeshDims)).s
    /\ last = [op |-> "init", raised |-> FALSE, ret |-> "None", chain |-> 0]

SetOcclusion(value) == Commit(set_occlusion(voxels, value), "occlusion")

NextMesh ==
    \/ \E c \in MeshCoordInputs, state \in MeshColours : Set(c, state)
    \/ \E value \in BOOLEAN : SetOcclusion(value)

SpecMesh == InitMesh /\ [][NextMesh]_vars

\* Picking: GLWidget.paintID renders the colour IDs, and the pixel under the
\* cursor shows the ID of face f of voxel (x,y,z), or the background, which
\* is cleared to white.  last keeps what was drawn there and the pixel.
PaintID(drawn) ==
    /\ last.op # "paintID"
    /\ last' = [op |-> "paintID", raised |-> FALSE, ret |-> "None", chain |-> 0,
                drawn |-> drawn,
                pixel |-> IF drawn = "background" THEN <<255, 255, 255>>
                          ELSE colour_id(drawn[1], drawn[2], drawn[3], drawn[4])]
    /\ UNCHANGED voxels

\* GLWidget.window_to_voxel on the pixel rendered last.
WindowToVoxel ==
    /\ last.op = "paintID"
    /\ last' = [last EXCEPT !.op = "window_to_voxel",
                            !.ret = window_to_voxel(last.pixel)]
    /\ UNCHANGED voxels

NextPick ==
    \/ \E x, y, z \in PickCoordInputs, f \in 0 .. 5 : PaintID(<<x, y, z, f>>)
    \/ PaintID("background")
    \/ WindowToVoxel

SpecPick == Init /\ [][NextPick]_vars

\* The points of voxel space in bounds, in halves.
VoxelPoints(s) == (0 .. 2 * s.width) \X (0 .. 2 * s.height) \X (0 .. 2 * s.depth)

\* Whether last is the record of a call of one of the coordinate maps.
Converted == last.op \in {"voxel_to_world", "world_to_voxel"}

\* voxel_to_world applied to a point of voxel space in bounds or to the
\* result of world_to_voxel, and world_to_voxel applied to a point of world
\* space in bounds or to the result of voxel_to_world.  last keeps the
\* argument.
InitWorld ==
    /\ voxels \in {ConstructedWith(dims) : dims \in WorldDims}
    /\ last = [op |-> "init", raised |-> FALSE, ret |-> "None", chain |-> 0]

VoxelToWorld(p) ==
    /\ last' = [op |-> "voxel_to_world", raised |-> FALSE,
                ret |-> voxel_to_world(voxels, p), chain |-> 0, arg |-> p]
    /\ UNCHANGED voxels

WorldToVoxel(p) ==
    /\ last' = [op |-> "world_to_voxel", raised |-> FALSE,
                ret |-> world_to_voxel(voxels, p), chain |-> 0, arg |-> p]
    /\ UNCHANGED voxels

NextWorld ==
    \/ \E p \in VoxelPoints(voxels) : VoxelToWorld(p)
    \/ last.op = "world_to_voxel" /\ VoxelToWorld(last.ret)
    \/ \E p \in VoxelPoints(voxels) : WorldToVoxel(voxel_to_world(voxels, p))
    \/ last.op = "voxel_to_world" /\ WorldToVoxel(last.ret)

SpecWorld == InitWorld /\ [][NextWorld]_vars

\* Drawing in a volume and asking it to grow.  last keeps the direction.
Expand(d) ==
    LET r == expand(voxels, d[1], d[2], d[3])
    IN  /\ voxels' = Canon(r.s)
        /\ last' = [op |-> "expand", raised |-> r.raised, ret |-> r.ret, chain |-> 0,
                    arg |-> d]

NextExpand ==
    \/ \E c \in ExpandCoordInputs, state \in Colours : Set(c, state)
    \/ Undo
    \/ \E d \in ExpandInputs : Expand(d)

SpecExpand == Init /\ [][NextExpand]_vars

\* A sequence of recorded operations on one frame of a fresh volume, then as
\* many undo calls, then as many redo calls.  last keeps the number of
\* operations recorded (n), of undo and of redo calls made after them, and
\* the voxels and the cache the last operation left (reached).
Replayed(r, op, n, undone, redone, reached) ==
    /\ voxels' = Canon(r.s)
    /\ last' = [op |-> op, raised |-> r.raised, ret |-> r.ret, chain |-> 0,
                n |-> n, undone |-> undone, redone |-> redone,
                reached |-> IF op \in {"undo", "redo"} THEN reached
                            ELSE [grid |-> Grid(Canon(r.s)), cache |-> r.s.cache]]

InitReplay ==
    /\ voxels = Constructed
    /\ last = [op |-> "init", raised |-> FALSE, ret |-> "None", chain |-> 0,
               n |-> 0, undone |-> 0, redone |-> 0,
               reached |-> [grid |-> Grid(Constructed), cache |-> <<>>]]

RecordSet(c, state) ==
    /\ RoomInLog
    /\ last.undone = 0
    /\ Replayed(set(voxels, c[1], c[2], c[3], state, TRUE), "set", last.n + 1, 0, 0,
                last.reached)

RecordTranslate(delta) ==
    /\ RoomInLog
    /\ last.undone = 0
    /\ Replayed(translate(voxels, delta[1], delta[2], delta[3], TRUE), "translate",
                last.n + 1, 0, 0, last.reached)

UndoRecorded ==
    /\ last.undone < last.n
    /\ last.redone = 0
    /\ Replayed(VoxelData_undo(voxels), "undo", last.n, last.undone + 1, 0, last.reached)

RedoRecorded ==
    /\ last.undone = last.n
    /\ last.redone < last.n
    /\ Replayed(VoxelData_redo(voxels), "redo", last.n, last.undone, last.redone + 1,
                last.reached)

NextReplay ==
    \/ \E c \in Cells(InitDims[1], InitDims[2], InitDims[3]), state \in Colours :
           RecordSet(c, state)
    \/ \E delta \in {<<1, 0, 0>>, <<2, -1, 3>>} : RecordTranslate(delta)
    \/ UndoRecorded
    \/ RedoRecorded

SpecReplay == InitReplay /\ [][NextReplay]_vars

\* Filling with the FillTool in a volume of MeshDims that does not record
\* undo.  The volume is painted first; then the tool is activated once, on a
\* voxel that was painted or on a coordinate out of bounds, and its loop runs
\* one pass at a step until the search list is empty.  last keeps the tool:
\* where it is (pc: "idle" before it is activated, "loop" while the search
\* list is not empty, "done" when on_activate has returned), the target,
\* the fill colour, the search colour, the search list, and the voxels at
\* the moment of the activation (before).
Tool(op, raised, pc, target, colour, search_colour, search, before) ==
    [op |-> op, raised |-> raised, ret |-> "None", chain |-> 0, pc |-> pc,
     target |-> target, colour |-> colour, search_colour |-> search_colour,
     search |-> search, before |-> before]

InitFill ==
    /\ voxels = disable_undo(ConstructedWith(MeshDims)).s
    /\ last = Tool("init", FALSE, "idle", <<>>, EMPTY, EMPTY, <<>>, <<>>)

Paint(c, state) ==
    /\ last.pc = "idle"
    /\ LET r == set(voxels, c[1], c[2], c[3], state, TRUE)
       IN  /\ voxels' = Canon(r.s)
           /\ last' = Tool("set", r.raised, "idle", <<>>, EMPTY, EMPTY, <<>>, <<>>)

\* The coordinates of g reached from those of S by steps to one of the 6
\* neighbours over coordinates that hold the colour state.
RECURSIVE Connected(_, _, _)
Connected(g, state, S) ==
    LET more == {c \in DOMAIN g :
                    /\ g[c] = state
                    /\ \E e \in S, k \in 1 .. 3, step \in {-1, 1} :
                           c = [e EXCEPT ![k] = e[k] + step]}
    IN  IF more \subseteq S THEN S ELSE Connected(g, state, S \cup more)

\* FillTool.on_activate up to the loop.  A fill with the colour the start
\* voxel already has is offered when at most one other voxel of that colour
\* is connected to it: with more, the search list of the call grows without
\* bound.
Activate(target, colour) ==
    /\ last.pc = "idle"
    /\ LET voxel == get(voxels, target[1], target[2], target[3])
       IN  /\ voxel.ret = colour =>
                 Cardinality(Connected(Grid(voxels), colour, {target})) <= 2
           /\ voxels' = voxels
           /\ last' = IF voxel.raised \/ voxel.ret = EMPTY
                      THEN Tool("on_activate", voxel.raised, "done", target, colour,
                                EMPTY, <<>>, Grid(voxels))
                      ELSE Tool("on_activate", FALSE, "loop", target, colour,
                                voxel.ret, <<target>>, Grid(voxels))

\* One pass of the loop of FillTool.on_activate, and its test.
FillStep ==
    /\ last.pc = "loop"
    /\ LET r == on_activate_loop(voxels, last.search, last.search_colour, last.colour)
       IN  /\ voxels' = Canon(r.s)
           /\ last' = [last EXCEPT
                         !.raised = r.raised,
                         !.search = r.search,
                         !.pc = IF r.raised \/ r.search = <<>> THEN "done" ELSE "loop"]

NextFill ==
    \/ \E c \in MeshCoordInputs, state \in Colours : Paint(c, state)
    \/ \E target \in MeshCoordInputs \cup {<<2, 0, 0>>}, colour \in Colours \ {EMPTY} :
           Activate(target, colour)
    \/ FillStep

\* The tool runs on the thread that called it: a pass of the loop that can
\* be made is made.
SpecFill == InitFill /\ [][NextFill]_vars /\ WF_vars(FillStep)

\* Saving a model of one frame and loading files.  The model is drawn in a
\* volume of DrawDims, with the undo log disabled, and resized; it is saved by one of the two file
\* handlers; the volume is then cleared or resized, and the saved file is
\* loaded back by the handler that wrote it.  For MainWindow.load,
\* confirm_save is asked, and may be declined, only when the model has
\* changes.  last
\* keeps the handler and the file of the last save, the volume as it was
\* before the last save or MainWindow.load, and for a load whether the
\* volume loaded into held no voxel.
FileColours == {EMPTY, 255, DrawColour}
FileDims == {<<2, 2, 2, 0>>, <<3, 2, 1, 0>>}
FileCoordInputs == {<<1, 0, 0>>, <<0, 1, 0>>, <<0, 0, 1>>}

Filed(op, r, handler, file, before, blank) ==
    [op |-> op, raised |-> r.raised, ret |-> r.ret, chain |-> 0,
     handler |-> handler, file |-> file, before |-> before, blank |-> blank]

InitFiles ==
    /\ voxels = disable_undo(ConstructedWith(DrawDims)).s
    /\ last = Filed("init", Ok(<<>>, "None"), "None", <<>>, <<>>, FALSE)

FilesStep(op, r, handler, file, before, blank) ==
    /\ voxels' = Canon(r.s)
    /\ last' = Filed(op, r, handler, file, before, blank)

Sketch(c, state) ==
    FilesStep("set", set(voxels, c[1], c[2], c[3], state, TRUE), "None", <<>>, <<>>, FALSE)

\* The saved file is kept for loading while the volume is only cleared or
\* resized.
KeptFile ==
    IF last.op \in {"save", "clear", "resize"} THEN last
    ELSE Filed("init", Ok(<<>>, "None"), "None", <<>>, <<>>, FALSE)

ResizeVolume(a) ==
    FilesStep("resize", resize(voxels, a[1], a[2], a[3], a[4]),
              KeptFile.handler, KeptFile.file, KeptFile.before, FALSE)

ClearVolume ==
    FilesStep("clear", clear(voxels), KeptFile.handler, KeptFile.file, KeptFile.before, FALSE)

FileSaved(r, handler) ==
    /\ voxels' = voxels
    /\ last' = Filed("save", [raised |-> r.raised, ret |-> "None"], handler,
                     r.file, voxels, FALSE)

SaveZoxel == FileSaved(ZoxelFile_save(voxels), "ZoxelFile")

SaveQubicle == FileSaved(QubicleFile_save(voxels), "QubicleFile")

LoadSaved ==
    /\ last.handler # "None"
    /\ last.op \in {"save", "clear", "resize"}
    /\ ~last.raised
    /\ FilesStep("load",
                 IF last.handler = "ZoxelFile" THEN ZoxelFile_load(voxels, last.file)
                 ELSE QubicleFile_load(voxels, last.file),
                 last.handler, last.file, last.before,
                 \A c \in DOMAIN Grid(voxels) : Grid(voxels)[c] = EMPTY)

FileOpened(r, handler, file) ==
    /\ voxels' = Canon(r.s)
    /\ last' = [Filed("open", r, handler, file, voxels, FALSE)
                    EXCEPT !.ret = IF r.declined THEN "declined"
                                   ELSE IF r.warned THEN "warned" ELSE "None"]

OpenFile(confirmed, handler, file) ==
    FileOpened(MainWindow_load(voxels, confirmed, handler, file), handler, file)

NextFiles ==
    \/ \E c \in FileCoordInputs, state \in FileColours : Sketch(c, state)
    \/ \E a \in FileDims : ResizeVolume(a)
    \/ ClearVolume
    \/ SaveZoxel
    \/ SaveQubicle
    \/ LoadSaved

SpecFiles == InitFiles /\ [][NextFiles]_vars

\* Opening files from the main window, in a model that is drawn, resized
\* and cleared: the files of LoadFiles with the Zoxel handler, and the file
\* that is not JSON also with no handler.
NextOpen ==
    \/ \E c \in FileCoordInputs, state \in FileColours : Sketch(c, state)
    \/ \E a \in FileDims : ResizeVolume(a)
    \/ ClearVolume
    \/ \E confirmed \in BOOLEAN, file \in LoadFiles :
          \E handler \in (IF file.json THEN {"ZoxelFile"} ELSE {"ZoxelFile", "None"}) :
              /\ confirmed \/ voxels.changed
              /\ OpenFile(confirmed, handler, file)

SpecOpen == InitFiles /\ [][NextOpen]_vars

\* -------------------------------------------------------------- claims
\* The coordinates the claims range over: the inputs and every coordinate in
\* bounds under some dimensions the model reaches.
AllCoords == CoordInputs \cup FrameCoordInputs \cup Cells(2, 2, 2)

\* Every voxel, the cache and the undo pointers.
Volume(s) == [grid |-> Grid(s), cache |-> s.cache, ptr |-> s.undo.ptr]

Occurrences(l, v) == Cardinality({i \in DOMAIN l : l[i] = v})

\* The UndoItem the active frame's pointer is at.
ItemAtPtr(u) == At(Log(u), At(u.ptr, u.frame))

\* C1: the occupied cache holds exactly the coordinates of the current frame
\* whose stored colour is not EMPTY, each at most once.
C1_CacheIsOccupiedSet ==
    /\ \A i, j \in DOMAIN voxels.cache : i # j => voxels.cache[i] # voxels.cache[j]
    /\ {voxels.cache[i] : i \in DOMAIN voxels.cache}
         = {c \in AllCoords : get(voxels, c[1], c[2], c[3]).ret # EMPTY}

\* C2: after set(x,y,z,c) returns true, get(x,y,z) = c, every other
\* coordinate reads as before, and (x,y,z) is in the cache once if c is not
\* EMPTY and not at all if it is; setting EMPTY on an empty voxel leaves the
\* cache as it was.
C2_SetThenGet ==
    [][\A c \in CoordInputs, state \in Colours :
          (last'.op = "set" /\ last'.ret = "True" /\ Set(c, state)) =>
             /\ get(voxels', c[1], c[2], c[3]) = [raised |-> FALSE, ret |-> state]
             /\ \A e \in AllCoords \ {c} :
                   get(voxels', e[1], e[2], e[3]) = get(voxels, e[1], e[2], e[3])
             /\ Occurrences(voxels'.cache, c) = IF state # EMPTY THEN 1 ELSE 0
             /\ (state = EMPTY /\ ~Contains(voxels.cache, c))
                   => voxels'.cache = voxels.cache]_vars

\* C2 witness: a set that returned true overwrote one non-empty colour with
\* another.
C2_Witness ==
    /\ last.op = "set" /\ last.ret = "True"
    /\ ItemAtPtr(voxels.undo).olddata[4] # EMPTY
    /\ ItemAtPtr(voxels.undo).newdata[4] # EMPTY
    /\ ItemAtPtr(voxels.undo).newdata[4] # ItemAtPtr(voxels.undo).olddata[4]

\* c is outside [0,width) x [0,height) x [0,depth).
OutOfBounds(s, c) == c \notin Cells(s.width, s.height, s.depth)

\* C3: for a coordinate out of bounds get returns EMPTY without raising, and
\* set returns false and leaves every field of the volume and of the undo
\* buffer as it was.
C3_OutOfBounds ==
    /\ [](\A c \in AllCoords :
             OutOfBounds(voxels, c)
                => get(voxels, c[1], c[2], c[3]) = [raised |-> FALSE, ret |-> EMPTY])
    /\ [][\A c \in CoordInputs, state \in Colours :
             (last'.op = "set" /\ Set(c, state) /\ OutOfBounds(voxels, c)) =>
                (last'.ret = "False" /\ ~last'.raised /\ voxels' = voxels)]_vars

\* C3 witness: a set returned false on a volume that holds a voxel and a
\* recorded edit.
C3_Witness ==
    /\ last.op = "set" /\ last.ret = "False"
    /\ voxels.cache # <<>>
    /\ ItemCount(voxels.undo.buffer) > 0

\* C4: after a recorded set, undo() immediately followed by redo() leaves
\* every voxel, the cache and the undo pointer as the set left them.
C4_UndoRedo ==
    [][(last.chain = 1 /\ Undo) =>
          LET r == VoxelData_redo(voxels')
          IN  /\ ~last'.raised
              /\ ~r.raised
              /\ Volume(Canon(r.s)) = Volume(voxels)]_vars

\* C4 witness: set, undo, redo were called in a row, and the undo changed a
\* voxel.
C4_Witness ==
    /\ last.chain = 3
    /\ ItemAtPtr(voxels.undo).olddata[4] # ItemAtPtr(voxels.undo).newdata[4]

\* C5: with the pointer before the last log entry, a recorded set or
\* translate completes, discards the entries after the pointer, appends its
\* item, leaves the pointer at the new last index, and a following redo
\* returns nothing.
C5_AddDiscardsRedo ==
    [][((last'.op = "set" \/ last'.op = "translate")
           /\ HasLog(voxels.undo) /\ InRange(voxels.undo.ptr, voxels.undo.frame)
           /\ At(voxels.undo.ptr, voxels.undo.frame) < Len(Log(voxels.undo)) - 1
           /\ \/ \E c \in CoordInputs, state \in Colours :
                    is_valid_bounds(voxels, c[1], c[2], c[3]) /\ Set(c, state)
              \/ \E delta \in DeltaInputs : delta # <<0, 0, 0>> /\ Translate(delta))
        => /\ ~last'.raised
           /\ HasLog(voxels'.undo)
           /\ Len(Log(voxels'.undo)) = At(voxels.undo.ptr, voxels.undo.frame) + 2
           /\ SubSeq(Log(voxels'.undo), 1, Len(Log(voxels'.undo)) - 1)
                = SubSeq(Log(voxels.undo), 1, At(voxels.undo.ptr, voxels.undo.frame) + 1)
           /\ At(voxels'.undo.ptr, voxels'.undo.frame) = Len(Log(voxels'.undo)) - 1
           /\ Undo_redo(voxels'.undo).item = <<>>]_vars

\* C6: undo() with the active pointer at -1 and redo() with it at the last
\* entry leave every voxel, the cache and the pointer unchanged.
C6_NoOpAtEnds ==
    [][/\ (Undo /\ HasLog(voxels.undo) /\ InRange(voxels.undo.ptr, voxels.undo.frame)
              /\ At(voxels.undo.ptr, voxels.undo.frame) = -1)
          => Volume(voxels') = Volume(voxels)
       /\ (Redo /\ HasLog(voxels.undo) /\ InRange(voxels.undo.ptr, voxels.undo.frame)
              /\ At(voxels.undo.ptr, voxels.undo.frame) = Len(Log(voxels.undo)) - 1)
          => Volume(voxels') = Volume(voxels)]_vars

\* C7: every frame's pointer p satisfies -1 <= p <= len(log)-1 for that
\* frame's log, and every frame's log is a list of UndoItems.
C7_PointersInRange ==
    /\ Len(voxels.undo.ptr) = Len(voxels.undo.buffer)
    /\ \A i \in DOMAIN voxels.undo.buffer :
          /\ voxels.undo.buffer[i].kind = "list"
          /\ voxels.undo.ptr[i] >= -1
          /\ voxels.undo.ptr[i] <= Len(voxels.undo.buffer[i].v) - 1

\* C8: undo() and redo() never change the contents or length of any frame's
\* undo log.
C8_ReplayNotRecorded ==
    [][(Undo \/ Redo) => voxels'.undo.buffer = voxels.undo.buffer]_vars

\* C8 witness: an undo replayed an item and a redo replayed it again.
C8_Witness ==
    /\ last.op = "redo" /\ ~last.raised
    /\ last.chain = 3
    /\ voxels.cache # <<>>

\* C9: the frame count is at least 1, the frame list has that many entries,
\* the current frame index is in [0,count), and the working data is the
\* frame stored at the current index.
C9_FrameSet ==
    /\ voxels.frame_count >= 1
    /\ Len(voxels.frames) = voxels.frame_count
    /\ voxels.current_frame >= 0
    /\ voxels.current_frame < voxels.frame_count
    /\ InRange(voxels.frames, voxels.current_frame)
    /\ At(voxels.frames, voxels.current_frame) = voxels.data

\* C10: after resize or rotate_about_axis every frame has an empty undo
\* history with pointer -1: selecting any frame and calling undo() changes
\* nothing, and a recorded set() on it succeeds and is recorded in that
\* frame's own history.
C10_HistoryResetPerFrame ==
    (last.op \in {"resize", "rotate_about_axis"} /\ ~last.raised) =>
        \A n \in 0 .. voxels.frame_count - 1 :
            LET sel == select_frame(voxels, n)
                un == VoxelData_undo(sel.s)
                st == set(sel.s, 0, 0, 0, 1, TRUE)
            IN  /\ ~sel.raised
                /\ ~un.raised /\ un.s = sel.s
                /\ is_valid_bounds(sel.s, 0, 0, 0) =>
                      /\ ~st.raised /\ st.ret = "True"
                      /\ st.s.undo.frame = n
                      /\ Len(st.s.undo.buffer) = voxels.frame_count
                      /\ Len(At(st.s.undo.buffer, n).v) = 1

\* The voxels of the frame stored at list position i (from 1) of _frames.
FrameContent(s, i) == s.heap[s.frames[i]]

\* C11: with two or more frames, undo() leaves the content and the undo
\* pointer of every frame other than the current one as they were.
C11_UndoPerFrame ==
    [][(Undo /\ voxels.frame_count >= 2) =>
          \A i \in DOMAIN voxels.frames :
             i # voxels.current_frame + 1 =>
                /\ i \in DOMAIN voxels'.frames
                /\ FrameContent(voxels', i) = FrameContent(voxels, i)
                /\ i \in DOMAIN voxels.undo.ptr =>
                      /\ i \in DOMAIN voxels'.undo.ptr
                      /\ voxels'.undo.ptr[i] = voxels.undo.ptr[i]]_vars

\* C12: no two frames share storage. add_frame inserts a frame that is a new
\* object and leaves the content of the others as it was, and a set,
\* translate, undo or redo leaves the content of every frame other than the
\* current one as it was.
C12_NoSharedStorage ==
    /\ [][(last'.op = "add_frame" /\ ~last'.raised) =>
             /\ \A i, j \in DOMAIN voxels'.frames :
                   i # j => voxels'.frames[i] # voxels'.frames[j]
             /\ \E copy_current \in BOOLEAN :
                   [i \in DOMAIN voxels'.frames |-> FrameContent(voxels', i)]
                     = ListInsert([i \in DOMAIN voxels.frames |-> FrameContent(voxels, i)],
                                  voxels.current_frame + 1,
                                  IF copy_current THEN Grid(voxels)
                                  ELSE blank_data(voxels))]_vars
    /\ [][last'.op \in {"set", "translate", "undo", "redo"} =>
             \A i \in DOMAIN voxels.frames :
                i # voxels.current_frame + 1 =>
                   /\ i \in DOMAIN voxels'.frames
                   /\ FrameContent(voxels', i) = FrameContent(voxels, i)]_vars

\* C12 witness: a set changed a voxel of the current frame of a model whose
\* other frame was made as a copy and still holds a voxel.
C12_Witness ==
    /\ last.op = "set" /\ last.ret = "True"
    /\ voxels.frame_count = 2 /\ Len(voxels.frames) = 2
    /\ InRange(voxels.frames, voxels.current_frame)
    /\ \E i \in DOMAIN voxels.frames :
          /\ i # voxels.current_frame + 1
          /\ FrameContent(voxels, i) # Grid(voxels)
          /\ \E c \in DOMAIN FrameContent(voxels, i) : FrameContent(voxels, i)[c] # EMPTY

\* The coordinates of the cache, as a set.
Occupied(s) == {s.cache[i] : i \in DOMAIN s.cache}

C14_TranslateRecorded ==
    /\ [][\A delta \in DeltaInputs :
             Translate(delta) =>
                IF delta = <<0, 0, 0>> THEN voxels' = voxels
                ELSE /\ ~last'.raised
                     /\ HasLog(voxels'.undo)
                     /\ InRange(voxels.undo.ptr, voxels.undo.frame)
                     /\ Len(Log(voxels'.undo))
                          = At(voxels.undo.ptr, voxels.undo.frame) + 2
                     /\ Log(voxels'.undo)[Len(Log(voxels'.undo))]
                          = UndoItem(TRANSLATE,
                                     <<-delta[1], -delta[2], -delta[3]>>, delta)]_vars
    /\ [](\A delta \in DeltaInputs :
             translate(voxels, delta[1], delta[2], delta[3], FALSE).s.undo = voxels.undo)

\* The coordinates that hold a non-EMPTY voxel in some frame.
OccupiedAll(s) ==
    {c \in UNION {DOMAIN FrameContent(s, i) : i \in DOMAIN s.frames} :
        \E i \in DOMAIN s.frames :
           c \in DOMAIN FrameContent(s, i) /\ FrameContent(s, i)[c] # EMPTY}

\* The least and the greatest coordinate along axis k of the occupied voxels
\* of all frames, and the extent between them; 0 for a model with no voxel.
BoxMin(s, k) ==
    IF OccupiedAll(s) = {} THEN 0
    ELSE CHOOSE m \in {c[k] : c \in OccupiedAll(s)} :
            \A c \in OccupiedAll(s) : m <= c[k]
BoxMax(s, k) ==
    IF OccupiedAll(s) = {} THEN -1
    ELSE CHOOSE m \in {c[k] : c \in OccupiedAll(s)} :
            \A c \in OccupiedAll(s) : m >= c[k]
BoxExtent(s, k) == BoxMax(s, k) - BoxMin(s, k) + 1

\* The grid resize is to make of the grid old for the new size w x h x d:
\* the voxel of (x,y,z) at (x-minX+shift, y-minY+shift, z-minZ+shift), and
\* EMPTY wherever no voxel lands.
Resized(s, old, w, h, d, shift) ==
    [c \in Cells(w, h, d) |->
        LET src == <<c[1] + BoxMin(s, 1) - shift, c[2] + BoxMin(s, 2) - shift,
                     c[3] + BoxMin(s, 3) - shift>>
        IN  IF src \in DOMAIN old THEN old[src] ELSE EMPTY]

\* C15: resize(W,H,D) with W, H, D at least the extents of the bounding box
\* and shift 0 completes, and in every frame the voxel of (x,y,z) is at
\* (x-minX, y-minY, z-minZ) of the new W x H x D array with its colour and
\* every other coordinate of the new array is EMPTY.
C15_ResizeGrows ==
    [][\A a \in TransformResizeInputs :
          (/\ Resize(a)
           /\ a[4] = 0
           /\ a[1] >= BoxExtent(voxels, 1)
           /\ a[2] >= BoxExtent(voxels, 2)
           /\ a[3] >= BoxExtent(voxels, 3)) =>
             /\ ~last'.raised
             /\ <<voxels'.width, voxels'.height, voxels'.depth>> = <<a[1], a[2], a[3]>>
             /\ DOMAIN voxels'.frames = DOMAIN voxels.frames
             /\ \A i \in DOMAIN voxels.frames :
                   FrameContent(voxels', i)
                     = Resized(voxels, FrameContent(voxels, i), a[1], a[2], a[3], 0)
             /\ \A i \in DOMAIN voxels.frames :
                   \A c \in DOMAIN FrameContent(voxels, i) :
                      FrameContent(voxels, i)[c] # EMPTY =>
                         FrameContent(voxels', i)[<<c[1] - BoxMin(voxels, 1),
                                                    c[2] - BoxMin(voxels, 2),
                                                    c[3] - BoxMin(voxels, 3)>>]
                           = FrameContent(voxels, i)[c]]_vars

\* C15 witness: a resize to 2 x 1 x 1 left two frames, one with a voxel at
\* (0,0,0) only and one with a voxel at (1,0,0) only.
C15_Witness ==
    /\ last.op = "resize" /\ ~last.raised
    /\ <<voxels.width, voxels.height, voxels.depth>> = <<2, 1, 1>>
    /\ Len(voxels.frames) = 2
    /\ \E i, j \in DOMAIN voxels.frames :
          /\ FrameContent(voxels, i)[<<0, 0, 0>>] # EMPTY
          /\ FrameContent(voxels, i)[<<1, 0, 0>>] = EMPTY
          /\ FrameContent(voxels, j)[<<0, 0, 0>>] = EMPTY
          /\ FrameContent(voxels, j)[<<1, 0, 0>>] # EMPTY

\* A resize(a) step to a size no larger than the current one on any axis and
\* smaller on some axis, with shift 0.
Shrinks(a) ==
    /\ Resize(a)
    /\ a[4] = 0
    /\ a[1] <= voxels.width /\ a[2] <= voxels.height /\ a[3] <= voxels.depth
    /\ <<a[1], a[2], a[3]>> # <<voxels.width, voxels.height, voxels.depth>>

\* C16: resize(W,H,D) to smaller dimensions keeps in every frame exactly the
\* voxels whose coordinate is inside [0,W) x [0,H) x [0,D), each at the same
\* coordinate with the same colour.
C16_ShrinkKeepsInPlace ==
    [][\A a \in TransformResizeInputs :
          Shrinks(a) =>
             /\ ~last'.raised
             /\ DOMAIN voxels'.frames = DOMAIN voxels.frames
             /\ \A i \in DOMAIN voxels.frames :
                   FrameContent(voxels', i)
                     = [c \in Cells(a[1], a[2], a[3]) |-> FrameContent(voxels, i)[c]]]_vars

\* C16 as amended: resize(W,H,D) to smaller dimensions keeps in every frame
\* exactly the voxels whose coordinate relative to the minimum corner of the
\* bounding box, (x-minX, y-minY, z-minZ), is inside [0,W) x [0,H) x [0,D),
\* each at that relative coordinate with the same colour.
C16_ShrinkKeepsRelative ==
    [][\A a \in TransformResizeInputs :
          Shrinks(a) =>
             /\ ~last'.raised
             /\ <<voxels'.width, voxels'.height, voxels'.depth>> = <<a[1], a[2], a[3]>>
             /\ DOMAIN voxels'.frames = DOMAIN voxels.frames
             /\ \A i \in DOMAIN voxels.frames :
                   FrameContent(voxels', i)
                     = Resized(voxels, FrameContent(voxels, i), a[1], a[2], a[3], 0)]_vars

\* C16 witness: a resize left a 1 x 1 x 1 model of two frames, one with its
\* voxel and one without.
C16_Witness ==
    /\ last.op = "resize" /\ ~last.raised
    /\ <<voxels.width, voxels.height, voxels.depth>> = <<1, 1, 1>>
    /\ Len(voxels.frames) = 2
    /\ \E i, j \in DOMAIN voxels.frames :
          /\ FrameContent(voxels, i)[<<0, 0, 0>>] # EMPTY
          /\ FrameContent(voxels, j)[<<0, 0, 0>>] = EMPTY

\* C17: resize(W,H,D,shift) with W, H, D >= 1 and shift >= 0 completes, and
\* in every frame the voxels whose coordinate (x-minX+shift, y-minY+shift,
\* z-minZ+shift) is inside the new bounds are there with their colour, the
\* others are discarded.
C17_ResizeCompletes ==
    [][\A a \in ResizeInputs :
          Resize(a) =>
             /\ ~last'.raised
             /\ DOMAIN voxels'.frames = DOMAIN voxels.frames
             /\ \A i \in DOMAIN voxels.frames :
                   FrameContent(voxels', i)
                     = Resized(voxels, FrameContent(voxels, i), a[1], a[2], a[3], a[4])]_vars

\* C18: get_bounding_box returns without raising; its box is the smallest
\* that holds every non-EMPTY voxel of every frame, and with no such voxel
\* its three extents are at most 0.
C18_BoundingBox ==
    LET bb == get_bounding_box(voxels)
        occ == OccupiedAll(voxels)
    IN  /\ ~bb.raised
        /\ occ = {} => (bb.box[4] <= 0 /\ bb.box[5] <= 0 /\ bb.box[6] <= 0)
        /\ occ # {} =>
              \A k \in 1 .. 3 :
                 /\ \A c \in occ : bb.box[k] <= c[k] /\ c[k] < bb.box[k] + bb.box[k + 3]
                 /\ \E c \in occ : c[k] = bb.box[k]
                 /\ \E c \in occ : c[k] = bb.box[k] + bb.box[k + 3] - 1

\* C18 witness: two frames hold voxels at different coordinates, so that the
\* box of all frames is larger than the box of the current frame.
C18_Witness ==
    /\ Len(voxels.frames) = 2
    /\ Cardinality(OccupiedAll(voxels)) = 2
    /\ Len(voxels.cache) = 1

\* C19: width, height and depth are each at least 1.
C19_DimensionsPositive ==
    voxels.width >= 1 /\ voxels.height >= 1 /\ voxels.depth >= 1

\* The coordinate rotate_about_axis is to move the voxel of t to in a
\* W x H x D model.
Rotated(axis, t, w, h, d) ==
    IF axis = Y_AXIS THEN <<d - 1 - t[3], t[2], t[1]>>
    ELSE IF axis = X_AXIS THEN <<t[1], d - 1 - t[3], t[2]>>
    ELSE <<t[2], w - 1 - t[1], t[3]>>

\* The number of voxels of colour v in grid g.
ColourCount(g, v) == Cardinality({c \in DOMAIN g : g[c] = v})

\* C20: rotate_about_axis on a W x H x D model makes the dimensions D x H x W
\* for Y, W x D x H for X and H x W x D for Z, and in every frame puts the
\* voxel of (tx,ty,tz) at (D-1-tz,ty,tx) for Y, (tx,D-1-tz,ty) for X and
\* (ty,W-1-tx,tz) for Z, so that the number of voxels of each colour in each
\* frame is unchanged.
C20_RotateBijection ==
    [][\A axis \in {X_AXIS, Y_AXIS, Z_AXIS} :
          RotateAboutAxis(axis) =>
             LET w == voxels.width
                 h == voxels.height
                 d == voxels.depth
             IN  /\ ~last'.raised
                 /\ <<voxels'.width, voxels'.height, voxels'.depth>>
                      = IF axis = Y_AXIS THEN <<d, h, w>>
                        ELSE IF axis = X_AXIS THEN <<w, d, h>>
                        ELSE <<h, w, d>>
                 /\ DOMAIN voxels'.frames = DOMAIN voxels.frames
                 /\ \A i \in DOMAIN voxels.frames :
                       /\ DOMAIN FrameContent(voxels', i)
                            = Cells(voxels'.width, voxels'.height, voxels'.depth)
                       /\ \A t \in Cells(w, h, d) :
                             FrameContent(voxels', i)[Rotated(axis, t, w, h, d)]
                               = FrameContent(voxels, i)[t]
                       /\ \A v \in FrameColours :
                             ColourCount(FrameContent(voxels', i), v)
                               = ColourCount(FrameContent(voxels, i), v)]_vars

\* C20 witness: a rotation left a model of two cells along y with two
\* frames, one with a voxel at (0,0,0) only and one with a voxel at (0,1,0)
\* only.
C20_Witness ==
    /\ last.op = "rotate_about_axis" /\ ~last.raised
    /\ <<voxels.width, voxels.height, voxels.depth>> = <<1, 2, 1>>
    /\ Len(voxels.frames) = 2
    /\ \E i, j \in DOMAIN voxels.frames :
          /\ FrameContent(voxels, i)[<<0, 0, 0>>] # EMPTY
          /\ FrameContent(voxels, i)[<<0, 1, 0>>] = EMPTY
          /\ FrameContent(voxels, j)[<<0, 0, 0>>] = EMPTY
          /\ FrameContent(voxels, j)[<<0, 1, 0>>] # EMPTY

\* The offsets of the six axis neighbours of a voxel.
AxisOffsets ==
    {<<1, 0, 0>>, <<-1, 0, 0>>, <<0, 1, 0>>, <<0, -1, 0>>, <<0, 0, 1>>, <<0, 0, -1>>}

\* Whether the neighbour of v at offset o is EMPTY or out of bounds.
Open(s, v, o) ==
    \/ Plus(v, o) \notin Cells(s.width, s.height, s.depth)
    \/ Grid(s)[Plus(v, o)] = EMPTY

\* The voxels of the current frame that are not EMPTY.
Solid(s) == {v \in Cells(s.width, s.height, s.depth) : Grid(s)[v] # EMPTY}

\* The faces among faces, as get_vertices returns them, that belong to voxel
\* v and whose normal points towards the neighbour at offset o: the z axis
\* of world space is the negated z axis of voxel space.
FacesTowards(faces, v, o) ==
    {i \in DOMAIN faces :
        /\ faces[i].voxel = v
        /\ \A k \in 1 .. 6 : faces[i].normals[k] = <<o[1], o[2], -o[3]>>}

\* C21: get_vertices emits, for each occupied voxel of the current frame,
\* exactly one face of 6 vertices for each of its 6 axis neighbours that is
\* EMPTY or out of bounds, and no other face: an empty volume yields 0
\* faces, one isolated voxel 6, and two voxels adjacent along x 10.
C21_FacesOfOpenSides ==
    LET mesh == get_vertices(voxels)
        solid == Solid(voxels)
    IN  /\ ~mesh.raised
        /\ \A v \in Cells(voxels.width, voxels.height, voxels.depth) :
              \A o \in AxisOffsets :
                 Cardinality(FacesTowards(mesh.ret, v, o))
                   = IF v \in solid /\ Open(voxels, v, o) THEN 1 ELSE 0
        /\ \A i \in DOMAIN mesh.ret :
              /\ \E o \in AxisOffsets : i \in FacesTowards(mesh.ret, mesh.ret[i].voxel, o)
              /\ Len(mesh.ret[i].vertices) = 6
              /\ Len(mesh.ret[i].colours) = 6
              /\ Len(mesh.ret[i].colour_ids) = 6
        /\ solid = {} => Len(mesh.ret) = 0
        /\ Cardinality(solid) = 1 => Len(mesh.ret) = 6
        /\ (\E v \in solid : solid = {v, Plus(v, <<1, 0, 0>>)})
              => Len(mesh.ret) = 10

\* C21 witness: exactly two voxels, adjacent along x, and 10 faces.
C21_Witness ==
    /\ Solid(voxels) = {<<0, 0, 0>>, <<1, 0, 0>>}
    /\ Len(get_vertices(voxels).ret) = 10

\* The colour ID the claim gives face f of voxel (x,y,z): the three bytes of
\* x * 2^17 + y * 2^10 + z * 2^3 + f.
PickValue(x, y, z, f) == x * 131072 + y * 1024 + z * 8 + f

\* C22: for x, y, z in 0..127 and a face f in 0..5, the pick-ID bytes written
\* for the face are the bytes R, G, B of (x<<17 | y<<10 | z<<3 | f), the
\* value is never 0xFFFFFF, and window_to_voxel decodes the bytes to
\* (x,y,z,f).
C22_PickIdRoundTrip ==
    (last.op \in {"paintID", "window_to_voxel"} /\ last.drawn # "background") =>
        LET value == PickValue(last.drawn[1], last.drawn[2], last.drawn[3], last.drawn[4])
        IN  /\ last.pixel = <<value \div 65536, (value \div 256) % 256, value % 256>>
            /\ value # 16777215
            /\ last.op = "window_to_voxel" => last.ret = last.drawn

\* C22 witness: the pixel of face 5 of voxel (127,127,127) was decoded.
C22_Witness ==
    /\ last.op = "window_to_voxel"
    /\ last.drawn = <<127, 127, 127, 5>>
    /\ last.ret = <<127, 127, 127, 5>>

\* The face number in the colour ID of a face of the mesh.
FaceNumber(face) == face.colour_ids[1][3] % 8

Beyond(v, o, steps) ==
    {Plus(Plus(v, o), e) : e \in
        {e \in (-1 .. 1) \X (-1 .. 1) \X (-1 .. 1) :
            /\ e[1] * o[1] + e[2] * o[2] + e[3] * o[3] = 0
            /\ e[1] * e[1] + e[2] * e[2] + e[3] * e[3] = steps}}

\* The face of voxel v towards offset o as _get_voxel_vertices emits it in s.
FaceTowards(s, v, o) ==
    LET faces == get_voxel_vertices(s, v).ret
    IN  faces[CHOOSE i \in FacesTowards(faces, v, o) : TRUE]

\* The corners at which level is one more than without, and those at which
\* they are the same.
Raised(level, without) == {k \in 1 .. 4 : level[k] = without[k] + 1}
Kept(level, without) == {k \in 1 .. 4 : level[k] = without[k]}

\* The occlusion levels of the face of v towards o with the voxel at n
\* removed.
Without(s, v, o, n) == FaceTowards(set(s, n[1], n[2], n[3], EMPTY, FALSE).s, v, o).occ

\* The red, green and blue bytes of a packed colour c.
BaseColour(c) == <<(c \div 16777216) % 256, (c \div 65536) % 256, (c \div 256) % 256>>

\* C24: with occlusion enabled, for every emitted face each occupied
\* edge-adjacent neighbour in the plane beyond the face raises the level of
\* exactly 2 of the 4 corners by one and each occupied diagonal neighbour
\* raises exactly 1, and every level is within 0..4; with occlusion disabled
\* every level is 0 and every vertex has the base colour.  The first
\* conjunct is the same count over the tests of every block: the 4 tests
\* that raise 2 corners read the 4 edge-adjacent neighbours, the 4 that
\* raise 1 corner the 4 diagonal ones, and no corner is named by more than
\* 4 tests.
C24_OcclusionLevels ==
    /\ \A b \in DOMAIN FaceBlocks :
          LET tests == FaceBlocks[b].tests
              reading(n) == {tests[i][1] : i \in {j \in DOMAIN tests :
                                                    Cardinality(tests[j][2]) = n}}
          IN  /\ Len(tests) = 8
              /\ Cardinality({tests[i][1] : i \in DOMAIN tests}) = 8
              /\ reading(2) = Beyond(<<0, 0, 0>>, FaceBlocks[b].open, 1)
              /\ reading(1) = Beyond(<<0, 0, 0>>, FaceBlocks[b].open, 2)
              /\ \A k \in 1 .. 4 :
                    Cardinality({i \in DOMAIN tests : k \in tests[i][2]}) <= 4
    /\ \A v \in Solid(voxels) : \A o \in AxisOffsets :
        Open(voxels, v, o) =>
            LET face == FaceTowards(voxels, v, o)
            IN  /\ \A k \in 1 .. 4 : face.occ[k] \in 0 .. 4
                /\ voxels.occlusion =>
                      /\ \A n \in Beyond(v, o, 1) \cap Solid(voxels) :
                            LET without == Without(voxels, v, o, n)
                            IN  /\ Cardinality(Raised(face.occ, without)) = 2
                                /\ Cardinality(Kept(face.occ, without)) = 2
                      /\ \A n \in Beyond(v, o, 2) \cap Solid(voxels) :
                            LET without == Without(voxels, v, o, n)
                            IN  /\ Cardinality(Raised(face.occ, without)) = 1
                                /\ Cardinality(Kept(face.occ, without)) = 3
                /\ ~voxels.occlusion =>
                      /\ \A k \in 1 .. 4 : face.occ[k] = 0
                      /\ \A k \in 1 .. 6 :
                            face.colours[k] = BaseColour(Grid(voxels)[v])

\* C24 witness: with occlusion enabled the top face of (0,0,0) has a corner
\* of level 3, raised by two edge-adjacent neighbours and the diagonal one.
C24_Witness ==
    /\ voxels.occlusion
    /\ <<0, 0, 0>> \in Solid(voxels)
    /\ Open(voxels, <<0, 0, 0>>, <<0, 1, 0>>)
    /\ \E k \in 1 .. 4 : FaceTowards(voxels, <<0, 0, 0>>, <<0, 1, 0>>).occ[k] = 3

\* Whether points p and q are within one voxel unit, which is 2 halves, on
\* each axis.
Near(p, q) == \A k \in 1 .. 3 : p[k] - q[k] <= 2 /\ q[k] - p[k] <= 2

\* C27: for every dimension triple and in-bounds point p,
\* voxel_to_world(world_to_voxel(p)) and world_to_voxel(voxel_to_world(p))
\* are within one voxel unit of p on each axis, and both maps negate the z
\* axis: a step of +1 along z of the argument is a step of -1 along z of the
\* result.
C27_WorldRoundTrip ==
    /\ [][(Converted /\ Converted' /\ last'.op # last.op /\ last'.arg = last.ret)
             => Near(last'.ret, last.arg)]_vars
    /\ [](last.op = "voxel_to_world" =>
             voxel_to_world(voxels, Plus(last.arg, <<0, 0, 1>>))[3] = last.ret[3] - 1)
    /\ [](last.op = "world_to_voxel" =>
             world_to_voxel(voxels, Plus(last.arg, <<0, 0, 1>>))[3] = last.ret[3] - 1)

\* C27 witness: in a volume of odd depth a point of voxel space was mapped to
\* world space and back to itself.
C27_Witness ==
    /\ voxels.depth = 1 /\ voxels.width = 3
    /\ last.op = "world_to_voxel"
    /\ last.ret = <<6, 0, 2>>
    /\ last.arg = voxel_to_world(voxels, <<6, 0, 2>>)

\* A step that is a mutation that succeeded: a set that returned True, or a
\* translate by a non-zero delta, a resize, a rotate_about_axis or a set_data
\* that completed.
Mutated ==
    /\ ~last'.raised
    /\ \/ last'.op = "set" /\ last'.ret = "True"
       \/ last'.op = "translate" /\ \E delta \in DocumentDeltaInputs :
                                       /\ delta # <<0, 0, 0>>
                                       /\ Translate(delta)
       \/ last'.op \in {"resize", "rotate_about_axis", "set_data"}

\* C25: every mutation that succeeds sets changed, and no operation other
\* than saved() takes changed from true to false.
C25_ChangedUntilSaved ==
    /\ [][Mutated => voxels'.changed]_vars
    /\ [][(voxels.changed /\ ~voxels'.changed) => last'.op = "saved"]_vars

\* C25 as amended: every mutation that succeeds sets changed, and no
\* operation other than saved() and clear() takes changed from true to
\* false.
C25_ChangedUntilSavedOrCleared ==
    /\ [][Mutated => voxels'.changed]_vars
    /\ [][(voxels.changed /\ ~voxels'.changed) => last'.op \in {"saved", "clear"}]_vars

\* C25 witness: saved() has reset the flag of a volume that holds a voxel,
\* which set or set_data put there and flagged.
C25_Witness ==
    /\ last.op = "saved"
    /\ ~voxels.changed
    /\ voxels.cache # <<>>

\* C26: after clear(), whatever the state before, the dimensions are
\* unchanged, every voxel of the working volume is EMPTY, the cache is
\* empty, the undo history is empty with pointer -1, and changed is false.
C26_ClearResets ==
    [][last'.op = "clear" =>
         /\ ~last'.raised
         /\ <<voxels'.width, voxels'.height, voxels'.depth>>
              = <<voxels.width, voxels.height, voxels.depth>>
         /\ DOMAIN Grid(voxels') = Cells(voxels.width, voxels.height, voxels.depth)
         /\ \A c \in DOMAIN Grid(voxels') : Grid(voxels')[c] = EMPTY
         /\ voxels'.cache = <<>>
         /\ HasLog(voxels'.undo)
         /\ Log(voxels'.undo) = <<>>
         /\ At(voxels'.undo.ptr, voxels'.undo.frame) = -1
         /\ ~voxels'.changed]_vars

\* C26 witness: clear() was called on a volume that an earlier resize had
\* made 1 x 1 x 1, and left it 1 x 1 x 1 and empty.
C26_Witness ==
    /\ last.op = "clear" /\ ~last.raised
    /\ <<voxels.width, voxels.height, voxels.depth>> = <<1, 1, 1>>
    /\ voxels.cache = <<>>
    /\ Grid(voxels)[<<0, 0, 0>>] = EMPTY

\* C28: ZoxelFile.load of a file whose version is greater than the supported
\* one fails and leaves the volume as it was: dimensions, voxels of every
\* frame, cache and undo history.
C28_NewerVersionRejected ==
    [][(/\ last'.op = "load"
        /\ last'.file.json
        /\ "version" \in last'.file.keys
        /\ last'.file.version > file_version) =>
           /\ last'.raised
           /\ voxels' = voxels]_vars

\* C28 witness: a file of version 2 was refused by a volume of two frames
\* that holds a voxel.
C28_Witness ==
    /\ last.op = "load" /\ last.raised
    /\ last.file.json /\ last.file.version = 2
    /\ Len(voxels.frames) = 2
    /\ voxels.cache # <<>>

\* C29: when a load fails on malformed data, at any point of the file, the
\* dimensions and the voxels of the volume are the same as before the call.
C29_FailedLoadCommitsNothing ==
    [][(last'.op = "load" /\ last'.raised) =>
           /\ <<voxels'.width, voxels'.height, voxels'.depth>>
                = <<voxels.width, voxels.height, voxels.depth>>
           /\ DOMAIN voxels'.frames = DOMAIN voxels.frames
           /\ \A i \in DOMAIN voxels.frames :
                 FrameContent(voxels', i) = FrameContent(voxels, i)]_vars

\* The offset the claim gives for each face: TOP y+1, BOTTOM y-1, BACK z+1,
\* FRONT z-1, LEFT x-1, RIGHT x+1.
FaceOffset(f) ==
    IF f = TOP THEN <<0, 1, 0>>
    ELSE IF f = BOTTOM THEN <<0, -1, 0>>
    ELSE IF f = BACK THEN <<0, 0, 1>>
    ELSE IF f = FRONT THEN <<0, 0, -1>>
    ELSE IF f = LEFT THEN <<-1, 0, 0>>
    ELSE <<1, 0, 0>>

C31_ExpandGrows ==
    [][last'.op = "expand" =>
        LET d == last'.arg
            shift == [k \in 1 .. 3 |-> IF d[k] < 0 THEN 1 ELSE 0]
            grow == [k \in 1 .. 3 |-> IF d[k] # 0 THEN 1 ELSE 0]
            old == Cells(voxels.width, voxels.height, voxels.depth)
        IN  /\ ~last'.raised
            /\ voxels'.width = voxels.width + grow[1]
            /\ voxels'.height = voxels.height + grow[2]
            /\ voxels'.depth = voxels.depth + grow[3]
            /\ DOMAIN Grid(voxels') = Cells(voxels'.width, voxels'.height, voxels'.depth)
            /\ \A c \in old : Grid(voxels')[Plus(c, shift)] = Grid(voxels)[c]
            /\ \A c \in DOMAIN Grid(voxels') :
                   (\A o \in old : c # Plus(o, shift)) => Grid(voxels')[c] = EMPTY
            /\ Occupied(voxels') = {c \in DOMAIN Grid(voxels') : Grid(voxels')[c] # EMPTY}
            /\ voxels'.undo.buffer = <<LogEntry(<<>>)>>
            /\ voxels'.undo.ptr = <<-1>>
            /\ last'.ret = shift]_vars

\* C32: after n >= 1 recorded operations (in-bounds set and non-zero
\* translate) on one frame of a fresh volume, every call completes, n undo
\* calls in a row leave every voxel EMPTY and the cache empty, as the fresh
\* volume was, and n redo calls after them leave the voxels and the cache the
\* n-th operation left.
C32_UndoAllRedoAll ==
    /\ ~last.raised
    /\ (last.n >= 1 /\ last.undone = last.n /\ last.redone = 0) =>
           /\ \A c \in DOMAIN Grid(voxels) : Grid(voxels)[c] = EMPTY
           /\ DOMAIN Grid(voxels) = DOMAIN Grid(Constructed)
           /\ voxels.cache = <<>>
    /\ (last.n >= 1 /\ last.redone = last.n) =>
           /\ Grid(voxels) = last.reached.grid
           /\ voxels.cache = last.reached.cache

C32_Witness ==
    /\ last.n = 2
    /\ last.redone = 2
    /\ voxels.cache = << <<1, 0, 0>> >>
    /\ \E i \in DOMAIN Log(voxels.undo) : Log(voxels.undo)[i].operation = TRANSLATE
    /\ \E i \in DOMAIN Log(voxels.undo) : Log(voxels.undo)[i].operation = SET_VOXEL

\* Whether the undo buffer of s has one log and one pointer per frame and
\* its active frame is the current frame.
UndoInStep(s) ==
    /\ Len(s.undo.buffer) = s.frame_count
    /\ Len(s.undo.ptr) = s.frame_count
    /\ Len(s.frames) = s.frame_count
    /\ \A i \in DOMAIN s.undo.buffer : s.undo.buffer[i].kind = "list"
    /\ s.undo.frame = s.current_frame

\* C33: add_frame, delete_frame, select_frame, select_next_frame and
\* select_previous_frame, called when the undo buffer has one log and one
\* pointer per frame and its active frame is the current frame, complete and
\* leave it so: the active frame of the undo buffer then addresses a log.
C33_UndoFrameInStep ==
    [][(/\ last'.op \in {"add_frame", "delete_frame", "select_frame",
                         "select_next_frame", "select_previous_frame"}
        /\ UndoInStep(voxels))
       => /\ ~last'.raised
          /\ UndoInStep(voxels')
          /\ HasLog(voxels'.undo)]_vars

\* Whether the step is a resize that was asked for the current dimensions.
SameSize(a) ==
    /\ Resize(a)
    /\ a[4] = 0
    /\ <<a[1], a[2], a[3]>> = <<voxels.width, voxels.height, voxels.depth>>

\* C34: resize(width, height, depth) with the current dimensions leaves the
\* colour at every coordinate of every frame unchanged.
C34_SameSizeKeepsContent ==
    [][\A a \in TransformResizeInputs :
          SameSize(a) =>
             /\ ~last'.raised
             /\ DOMAIN voxels'.frames = DOMAIN voxels.frames
             /\ \A i \in DOMAIN voxels.frames :
                   FrameContent(voxels', i) = FrameContent(voxels, i)]_vars

\* C34 as amended: resize(width, height, depth) with the current dimensions
\* completes, keeps the dimensions, and in every frame the voxel of (x,y,z)
\* is at (x-minX, y-minY, z-minZ) with its colour, where (minX,minY,minZ) is
\* the minimum corner of the bounding box of the occupied voxels of all
\* frames, and every other coordinate is EMPTY; every coordinate of every
\* frame keeps its colour when that corner is the origin or no voxel is
\* occupied.
C34_SameSizeMovesToCorner ==
    [][\A a \in TransformResizeInputs :
          SameSize(a) =>
             LET corner == <<BoxMin(voxels, 1), BoxMin(voxels, 2), BoxMin(voxels, 3)>>
                 cells == Cells(voxels.width, voxels.height, voxels.depth)
             IN  /\ ~last'.raised
                 /\ <<voxels'.width, voxels'.height, voxels'.depth>>
                      = <<voxels.width, voxels.height, voxels.depth>>
                 /\ DOMAIN voxels'.frames = DOMAIN voxels.frames
                 /\ \A i \in DOMAIN voxels.frames :
                       /\ DOMAIN FrameContent(voxels', i) = cells
                       /\ \A c \in cells :
                             FrameContent(voxels', i)[c]
                               = IF Plus(c, corner) \in cells
                                 THEN FrameContent(voxels, i)[Plus(c, corner)]
                                 ELSE EMPTY
                       /\ corner = <<0, 0, 0>> =>
                             FrameContent(voxels', i) = FrameContent(voxels, i)]_vars

\* C34 witness: a resize left a 2 x 1 x 1 model of one frame whose only voxel
\* is at (0,0,0).
C34_Witness ==
    /\ last.op = "resize" /\ ~last.raised
    /\ <<voxels.width, voxels.height, voxels.depth>> = <<2, 1, 1>>
    /\ Len(voxels.frames) = 1
    /\ Grid(voxels)[<<0, 0, 0>>] # EMPTY
    /\ Grid(voxels)[<<1, 0, 0>>] = EMPTY

\* C35: FillTool.on_activate terminates: a call that entered its loop comes
\* to return, whatever the volume, the start voxel and the fill colour.
C35_FillTerminates == (last.pc = "loop") ~> (last.pc = "done")

SavedBefore(e, f) ==
    \/ e[2] < f[2]
    \/ e[2] = f[2] /\ e[3] < f[3]
    \/ e[2] = f[2] /\ e[3] = f[3] /\ e[1] < f[1]

\* C37: for a model of one frame, the list ZoxelFile.save writes holds each
\* voxel that is not EMPTY exactly once with its colour, in y-outer,
\* z-middle, x-inner order, and no EMPTY voxel; and ZoxelFile.load of the
\* file into a cleared volume gives the width, height and depth and the
\* colour at every coordinate that the model had when it was saved.
C37_ZoxelRoundTrip ==
    /\ (last.op = "save" /\ last.handler = "ZoxelFile" /\ ~last.raised) =>
          LET frame1 == last.file.frame1
          IN  /\ last.file.dims = <<voxels.width, voxels.height, voxels.depth>>
              /\ \A i \in DOMAIN frame1 :
                    /\ frame1[i][4] # EMPTY
                    /\ <<frame1[i][1], frame1[i][2], frame1[i][3]>> \in DOMAIN Grid(voxels)
                    /\ Grid(voxels)[<<frame1[i][1], frame1[i][2], frame1[i][3]>>]
                          = frame1[i][4]
              /\ \A c \in DOMAIN Grid(voxels) :
                    Grid(voxels)[c] # EMPTY =>
                        Cardinality({i \in DOMAIN frame1 :
                                        <<frame1[i][1], frame1[i][2], frame1[i][3]>> = c}) = 1
              /\ \A i, j \in DOMAIN frame1 : i < j => SavedBefore(frame1[i], frame1[j])
    /\ (last.op = "load" /\ last.handler = "ZoxelFile" /\ last.blank) =>
          /\ ~last.raised
          /\ <<voxels.width, voxels.height, voxels.depth>>
                = <<last.before.width, last.before.height, last.before.depth>>
          /\ Grid(voxels) = Grid(last.before)
          /\ Len(voxels.frames) = 1

\* C37 witness: a model of 2 x 2 x 2 with three voxels of two colours,
\* saved as the list (1,0,0), (0,0,1), (0,1,0), was loaded back into a
\* cleared volume.
C37_Witness ==
    /\ last.op = "load" /\ last.handler = "ZoxelFile" /\ last.blank /\ ~last.raised
    /\ last.file.dims = <<2, 2, 2>>
    /\ last.file.frame1 = << <<1, 0, 0, 255>>, <<0, 0, 1, DrawColour>>, <<0, 1, 0, 255>> >>
    /\ Grid(voxels)[<<1, 0, 0>>] = 255
    /\ Grid(voxels)[<<0, 0, 1>>] = DrawColour
    /\ Grid(voxels)[<<0, 1, 0>>] = 255
    /\ Grid(voxels)[<<0, 0, 0>>] = EMPTY


\* C38: QubicleFile.save followed by QubicleFile.load of the file into a
\* cleared volume completes and gives, at every coordinate of the saved
\* model, the colour the model had there: a voxel that is not EMPTY keeps
\* its R, G, B and alpha 0xff, for every RGB value including (0,0,0), and
\* an EMPTY voxel stays EMPTY.
C38_QubicleRoundTrip ==
    (last.op = "load" /\ last.handler = "QubicleFile" /\ last.blank) =>
        /\ ~last.raised
        /\ \A c \in DOMAIN Grid(last.before) :
              /\ c \in DOMAIN Grid(voxels)
              /\ Grid(voxels)[c] = Grid(last.before)[c]


\* C39: when the load of the handler MainWindow.load selected raises (an
\* unsupported version, a malformed file, or no handler for the file type),
\* the model that was open before is intact after MainWindow.load: the
\* same width, height and depth and the same voxels in every frame.
C39_FailedOpenKeepsModel ==
    [][(last'.op = "open" /\ last'.ret = "warned") =>
           /\ ~last'.raised
           /\ <<voxels'.width, voxels'.height, voxels'.depth>>
                = <<voxels.width, voxels.height, voxels.depth>>
           /\ DOMAIN voxels'.frames = DOMAIN voxels.frames
           /\ \A i \in DOMAIN voxels.frames :
                 FrameContent(voxels', i) = FrameContent(voxels, i)]_vars

====
